---------------------------- MODULE Spec2Model ----------------------------
(***************************************************************************)
(* The pipeline scripts of cgat-flow as a state machine.                   *)
(*                                                                         *)
(* A script is imported (its module body runs: configuration is read, the  *)
(* design table is looked for, the decorators declare the task graph) and  *)
(* is then run for a target by the task-scheduling framework, which starts *)
(* the jobs of a task once the tasks it follows have completed.  A job     *)
(* executes the body of its task function: a shell command, a database     *)
(* load or python code writing files.                                      *)
(*                                                                         *)
(* File names are sequences of characters, so that the regex()/suffix()    *)
(* substitutions of the decorators and python's str.strip() are computed   *)
(* character by character, as the code computes them.                      *)
(***************************************************************************)
EXTENDS Integers, Sequences, FiniteSets, TLC

(***************************************************************************)
(* Bounds of the model.                                                    *)
(***************************************************************************)
\* jobs the scheduler runs at the same time (the -p option of a run)
MaxProcs == 2
\* invocations of the script on one working directory
MaxRuns == 2
\* distinct contents an input file may have
MaxContent == 2

VARIABLES
    pipeline,   \* the script that is imported and run
    PARAMS,     \* the configuration read by P.get_parameters
    target,     \* the task named on the command line
    needed,     \* the tasks the current run has to bring up to date
    jobs,       \* the jobs of each needed task, made when the run starts
    phase,      \* "import", "ready", "aborted", "running", "ok", "error"
    names,      \* the module namespace after import: name -> value
    warned,     \* the warnings issued by E.warn during import
    declared,   \* the tasks whose decorators have been evaluated
    loadError,  \* the exception that ended the import, or "none"
    files,      \* the working directory: file name -> content
    tables,     \* the database: table name -> content
    run,        \* the number of the current invocation
    forced,     \* whether the current invocation forces every task to rerun
    running,    \* the jobs that have been started and have not ended
    completed,  \* the jobs that have ended successfully or were up to date
    executed,   \* the jobs whose body was executed successfully in this run
    failed,     \* the jobs whose command exited with a non-zero code
    missing     \* the jobs refused because an input file does not exist

vars == <<pipeline, PARAMS, target, needed, jobs, phase, names, warned,
          declared, loadError, files, tables, run, forced, running,
          completed, executed, failed, missing>>

(***************************************************************************)
(* Strings.                                                                *)
(***************************************************************************)
NoFile == <<>>

EndsWith(s, suf) ==
    /\ Len(s) >= Len(suf)
    /\ SubSeq(s, Len(s) - Len(suf) + 1, Len(s)) = suf

StartsWith(s, pre) ==
    /\ Len(s) >= Len(pre)
    /\ SubSeq(s, 1, Len(pre)) = pre

\* the positions at which sub occurs in s
Occurrences(s, sub) ==
    {i \in 1..(Len(s) - Len(sub) + 1) : SubSeq(s, i, i + Len(sub) - 1) = sub}

\* python: sub in s
Contains(s, sub) == Occurrences(s, sub) /= {}

Max(S) == CHOOSE x \in S : \A y \in S : y <= x
Min(S) == CHOOSE x \in S : \A y \in S : x <= y

\* ruffus suffix(suf) with an output pattern that holds no \1: the suffix of
\* the input name is replaced by the pattern
SuffixReplace(name, suf, pattern) ==
    SubSeq(name, 1, Len(name) - Len(suf)) \o pattern

\* python: s.strip(chars): the characters of chars are removed from both
\* ends of s
RECURSIVE LStrip(_, _)
LStrip(s, chars) ==
    IF Len(s) > 0 /\ \E i \in 1..Len(chars) : chars[i] = s[1]
    THEN LStrip(Tail(s), chars)
    ELSE s

RECURSIVE RStrip(_, _)
RStrip(s, chars) ==
    IF Len(s) > 0 /\ \E i \in 1..Len(chars) : chars[i] = s[Len(s)]
    THEN RStrip(SubSeq(s, 1, Len(s) - 1), chars)
    ELSE s

Strip(s, chars) == RStrip(LStrip(s, chars), chars)

\* whether the regular expression pat, a sequence of characters in which
\* "." stands for any character, matches s at position i
PatAt(s, i, pat) ==
    /\ i >= 1
    /\ i + Len(pat) - 1 <= Len(s)
    /\ \A n \in 1..Len(pat) : pat[n] = "." \/ s[i + n - 1] = pat[n]

\* regex("(.*)" + pat), searched in s: the places where pat may start
PatPlaces(s, pat) == {i \in 1..Len(s) : PatAt(s, i, pat)}

\* the first group is greedy: pat is matched at its last place
Group1(s, pat) == SubSeq(s, 1, Max(PatPlaces(s, pat)) - 1)

\* what follows the match and is kept by the substitution
AfterMatch(s, pat) == SubSeq(s, Max(PatPlaces(s, pat)) + Len(pat), Len(s))

\* the elements of a sequence
Range(seq) == {seq[i] : i \in 1..Len(seq)}

\* the empty mapping
Nothing == [x \in {} |-> 0]

s_dot == <<".">>
s_tsv == <<".", "t", "s", "v">>
s_load == <<".", "l", "o", "a", "d">>
s_counts == <<".", "c", "o", "u", "n", "t", "s">>
s_ucounts_load == <<"_", "c", "o", "u", "n", "t", "s", ".", "l", "o", "a", "d">>
pipeline_yml == <<"p", "i", "p", "e", "l", "i", "n", "e", ".", "y", "m", "l">>
conf_py == <<"c", "o", "n", "f", ".", "p", "y">>
s_comma == <<",">>
s_slash == <<"/">>
s_all == <<"a", "l", "l">>
s_go == <<"g", "o">>
s_pathway == <<"p", "a", "t", "h", "w", "a", "y">>
s_homologene == <<"h", "o", "m", "o", "l", "o", "g", "e", "n", "e">>
s_kegg == <<"k", "e", "g", "g">>
s_reactome == <<"r", "e", "a", "c", "t", "o", "m", "e">>
s_10090 == <<"1", "0", "0", "9", "0">>
s_9606 == <<"9", "6", "0", "6">>
s_allgenes_tsv ==
    <<"a", "l", "l", "g", "e", "n", "e", "s", ".", "t", "s", "v">>
s_ensemblg2 == <<"e", "n", "s", "e", "m", "b", "l", "g", "2">>
s_symbol_ == <<"s", "y", "m", "b", "o", "l", "_">>
s_entrez == <<"e", "n", "t", "r", "e", "z">>
s_ensemblt == <<"e", "n", "s", "e", "m", "b", "l", "t">>
s_ensemblp == <<"e", "n", "s", "e", "m", "b", "l", "p">>
s_entrez2symbol_ ==
    <<"e", "n", "t", "r", "e", "z", "2", "s", "y", "m", "b", "o", "l", "_">>
s_mousepathway ==
    <<"m", "o", "u", "s", "e", "p", "a", "t", "h", "w", "a", "y">>
s_mgi == <<"m", "g", "i">>
s_hpo == <<"h", "p", "o">>
\* the table name suffixes; in the decorators the dollar is written \$
s_annot == <<"$", "a", "n", "n", "o", "t">>
s_details == <<"$", "d", "e", "t", "a", "i", "l", "s">>
s_ont == <<"$", "o", "n", "t">>
s_geneid == <<"$", "g", "e", "n", "e", "i", "d">>
s_other == <<"$", "o", "t", "h", "e", "r">>
s_esc_annot_load ==
    <<"\\", "$", "a", "n", "n", "o", "t", ".", "l", "o", "a", "d">>
s_genelists_dir ==
    <<"g", "e", "n", "e", "l", "i", "s", "t", "s", ".", "d", "i", "r", "/">>
s_genesetdbs_dir ==
    <<"g", "e", "n", "e", "s", "e", "t", "d", "b", "s", ".", "d", "i", "r">>
s_design_tsv == <<"d", "e", "s", "i", "g", "n", ".", "t", "s", "v">>
s_bam == <<".", "b", "a", "m">>
s_txt == <<".", "t", "x", "t">>
s_sam == <<".", "s", "a", "m">>
s_regions_txt ==
    <<"/", "r", "e", "g", "i", "o", "n", "s", ".", "t", "x", "t">>
s_bed == <<".", "b", "e", "d">>
s_annotate_txt ==
    <<"/", "a", "n", "n", "o", "t", "a", "t", "e", ".", "t", "x", "t">>
s_motifs_txt == <<"/", "m", "o", "t", "i", "f", "s", ".", "t", "x", "t">>
s_Motif_log == <<"M", "o", "t", "i", "f", ".", "l", "o", "g">>
s_countTable_peaks_txt ==
    <<"c", "o", "u", "n", "t", "T", "a", "b", "l", "e", ".", "p", "e", "a",
      "k", "s", ".", "t", "x", "t">>
s_peaks_txt == <<".", "p", "e", "a", "k", "s", ".", "t", "x", "t">>
s_diffexprs_txt ==
    <<".", "d", "i", "f", "f", "e", "x", "p", "r", "s", ".", "t", "x", "t">>
s_diffOutput_txt ==
    <<"d", "i", "f", "f", "O", "u", "t", "p", "u", "t", ".", "t", "x", "t">>
s_Replicates_dir ==
    <<"R", "e", "p", "l", "i", "c", "a", "t", "e", "s", ".", "d", "i", "r">>
s_outputPeaks_txt ==
    <<"o", "u", "t", "p", "u", "t", "P", "e", "a", "k", "s", ".", "t", "x",
      "t">>
s_Repeat == <<"R", "e", "p", "e", "a", "t", "-">>
s_Coverage_dir ==
    <<"C", "o", "v", "e", "r", "a", "g", "e", ".", "d", "i", "r">>
s_coverage_plot_tab ==
    <<"/", "c", "o", "v", "e", "r", "a", "g", "e", "_", "p", "l", "o", "t",
      ".", "t", "a", "b">>
s_Fingerprint_dir ==
    <<"F", "i", "n", "g", "e", "r", "p", "r", "i", "n", "t", ".", "d", "i",
      "r">>
s_fingerprints_plot_tab ==
    <<"/", "f", "i", "n", "g", "e", "r", "p", "r", "i", "n", "t", "s", "_",
      "p", "l", "o", "t", ".", "t", "a", "b">>
s_FragmentSize_dir ==
    <<"F", "r", "a", "g", "m", "e", "n", "t", "S", "i", "z", "e", ".", "d",
      "i", "r">>
s_FragmentSize_png ==
    <<"/", "F", "r", "a", "g", "m", "e", "n", "t", "S", "i", "z", "e", ".",
      "p", "n", "g">>
s_bamCoverage_dir ==
    <<"D", "e", "e", "p", "O", "u", "t", "p", "u", "t", ".", "d", "i", "r",
      "/", "b", "a", "m", "C", "o", "v", "e", "r", "a", "g", "e", ".", "d",
      "i", "r">>
s_bamCompare_dir ==
    <<"D", "e", "e", "p", "O", "u", "t", "p", "u", "t", ".", "d", "i", "r",
      "/", "b", "a", "m", "C", "o", "m", "p", "a", "r", "e", ".", "d", "i",
      "r">>
s_bw == <<".", "b", "w">>
s_Summary_dir == <<"S", "u", "m", "m", "a", "r", "y", ".", "d", "i", "r">>
s_Bam_Summary_npz ==
    <<"/", "B", "a", "m", "_", "S", "u", "m", "m", "a", "r", "y", ".", "n",
      "p", "z">>
s_bw_summary_npz ==
    <<"/", "b", "w", "_", "s", "u", "m", "m", "a", "r", "y", ".", "n", "p",
      "z">>
s_npz == <<".", "n", "p", "z">>
s_corr == <<"c", "o", "r", "r">>
s_PCA == <<"P", "C", "A">>
s_plot_dir == <<"p", "l", "o", "t", ".", "d", "i", "r">>
s_auto == <<"a", "u", "t", "o">>
s_s1_bam == <<"s", "1", ".", "b", "a", "m">>
s_s2_bam == <<"s", "2", ".", "b", "a", "m">>
s_b1_bam == <<"b", "1", ".", "b", "a", "m">>
s_c1_bam == <<"c", "1", ".", "b", "a", "m">>
s_reference_dir ==
    <<"r", "e", "f", "e", "r", "e", "n", "c", "e", ".", "d", "i", "r", "/">>
s_gtf_gz == <<".", "g", "t", "f", ".", "g", "z">>
s_transcripts_dir ==
    <<"t", "r", "a", "n", "s", "c", "r", "i", "p", "t", "s", ".", "d", "i",
      "r">>
s_fa == <<".", "f", "a">>
s_spliced_fa == <<".", "s", "p", "l", "i", "c", "e", "d", ".", "f", "a">>
s_ercc_fa == <<".", "e", "r", "c", "c", ".", "f", "a">>
s_ercc_dir == <<"e", "r", "c", "c", ".", "d", "i", "r">>
s_ercc_gtf == <<".", "e", "r", "c", "c", ".", "g", "t", "f">>
s_sailfish_index_dir ==
    <<"s", "a", "i", "l", "f", "i", "s", "h", "_", "i", "n", "d", "e", "x",
      ".", "d", "i", "r">>
s_sa_bin == <<"/", "s", "a", ".", "b", "i", "n">>
s_tpm_dir == <<"t", "p", "m", ".", "d", "i", "r">>
s_fastq_1_gz == <<".", "f", "a", "s", "t", "q", ".", "1", ".", "g", "z">>
s_fastq_2_gz == <<".", "f", "a", "s", "t", "q", ".", "2", ".", "g", "z">>
s_fastq_gz == <<".", "f", "a", "s", "t", "q", ".", "g", "z">>
s_quant_genes_sf ==
    <<"/", "q", "u", "a", "n", "t", ".", "g", "e", "n", "e", "s", ".", "s",
      "f">>
s_quant_sf == <<"/", "q", "u", "a", "n", "t", ".", "s", "f">>
s_tpm == <<".", "t", "p", "m">>
s_quant == <<".", "q", "u", "a", "n", "t">>
s_sailfish_counts_tsv ==
    <<"s", "a", "i", "l", "f", "i", "s", "h", "_", "c", "o", "u", "n", "t",
      "s", ".", "t", "s", "v">>
s_dedup_dir == <<"d", "e", "d", "u", "p", ".", "d", "i", "r">>
s_dedup_bam == <<".", "d", "e", "d", "u", "p", ".", "b", "a", "m">>
s_feature_counts_dir ==
    <<"f", "e", "a", "t", "u", "r", "e", "_", "c", "o", "u", "n", "t", "s",
      ".", "d", "i", "r">>
s_vs == <<"_", "v", "s", "_">>
s_tsv_gz == <<".", "t", "s", "v", ".", "g", "z">>
s_feature_counts_tsv_gz ==
    <<"-", "f", "e", "a", "t", "u", "r", "e", "_", "c", "o", "u", "n", "t",
      "s", ".", "t", "s", "v", ".", "g", "z">>
s_stats_dir == <<"s", "t", "a", "t", "s", ".", "d", "i", "r">>
s_ustats_tsv == <<"_", "s", "t", "a", "t", "s", ".", "t", "s", "v">>
s_QC_measures_stats ==
    <<"Q", "C", "_", "m", "e", "a", "s", "u", "r", "e", "s", ".", "s", "t",
      "a", "t", "s">>
s_stats == <<".", "s", "t", "a", "t", "s">>
s_clean == <<".", "c", "l", "e", "a", "n">>
s_context == <<"c", "o", "n", "t", "e", "x", "t">>
s_alignment == <<"a", "l", "i", "g", "n", "m", "e", "n", "t">>
s_picard == <<"p", "i", "c", "a", "r", "d">>
s_picard_insert ==
    <<"p", "i", "c", "a", "r", "d", "_", "i", "n", "s", "e", "r", "t">>
s_duplication == <<"d", "u", "p", "l", "i", "c", "a", "t", "i", "o", "n">>
s_coverage == <<"c", "o", "v", "e", "r", "a", "g", "e">>
s_report == <<"r", "e", "p", "o", "r", "t">>
s_report_html == <<"r", "e", "p", "o", "r", "t", "/", "h", "t", "m", "l">>
s_log == <<".", "l", "o", "g">>
s_geneset_gtf ==
    <<"r", "e", "f", "e", "r", "e", "n", "c", "e", ".", "d", "i", "r", "/",
      "g", ".", "g", "t", "f", ".", "g", "z">>
s_ercc92_fa == <<"e", "r", "c", "c", "9", "2", ".", "f", "a">>
s_ercc92_gtf == <<"e", "r", "c", "c", "9", "2", ".", "g", "t", "f">>
s_meta_tsv == <<"m", "e", "t", "a", ".", "t", "s", "v">>
s_here == <<".", "/">>
s_gtf == <<".", "g", "t", "f">>

(***************************************************************************)
(* Jobs.  A job is one call of a task function: its task, its place among  *)
(* the jobs of the task, the files it is given as input and the file       *)
(* declared as its output.                                                 *)
(***************************************************************************)
Job(t, k, ins, out) == [task |-> t, k |-> k, ins |-> ins, out |-> out]

\* a task function that has only @follows: one call without parameters
PlainJob(t) == {Job(t, 1, <<>>, NoFile)}

(***************************************************************************)
(* The database loader P.load(infile, outfile): the table named after the  *)
(* output file is dropped and created again from the input file, and the   *)
(* output file is written as the flag of the load.                         *)
(***************************************************************************)
\* P.to_table: the name of the output file without its .load suffix
to_table(outfile) == SubSeq(outfile, 1, Len(outfile) - Len(s_load))

P_load_files(infile, outfile, fs) == outfile :> 0

P_load_tables(infile, outfile, fs) == to_table(outfile) :> fs[infile]

(***************************************************************************)
(* cgatpipelines.report.run_report.  The report is the set of the builds   *)
(* whose pages it holds: a clean build removes the report directory and    *)
(* leaves the pages of this build alone, an update keeps the pages that    *)
(* exist and adds those of this build.  Build 0 is a report left by an     *)
(* earlier use of the directory.                                           *)
(***************************************************************************)
ReportPages(fs) ==
    IF s_report_html \in DOMAIN fs THEN fs[s_report_html][2] ELSE {}

run_report(clean, fs) ==
    (s_report :> 0)
        @@ (s_report_html :>
               <<"report", (IF clean THEN {} ELSE ReportPages(fs)) \cup {run}>>)

OldReport == (s_report :> 0) @@ (s_report_html :> <<"report", {0}>>)

ReportTargets == {"build_report", "publish_report"}

(***************************************************************************)
(* pipeline_template                                                       *)
(***************************************************************************)
\* the word frequencies awk computes from a file of the given content
Counts(c) == <<"counts", c>>

\* regex("(.*)\.(.*)") with r"\1.counts": the greedy first group ends at the
\* last dot of the name
countWords_matches(name) == Contains(name, s_dot)

\* a variant in which the output pattern does not use the group
countWords_output_nogroup(name) == s_counts

countWords_output(name) ==
    SubSeq(name, 1, Max(Occurrences(name, s_dot)) - 1) \o s_counts

\* @transform(("pipeline.yml", "conf.py"), ...)
countWords_inputs == <<pipeline_yml, conf_py>>

countWords_jobs ==
    {Job("countWords", i, <<countWords_inputs[i]>>,
         countWords_output(countWords_inputs[i])) :
        i \in {n \in 1..Len(countWords_inputs) :
                  countWords_matches(countWords_inputs[n])}}

loadWordCounts_jobs ==
    {Job("loadWordCounts", j.k, <<j.out>>,
         SuffixReplace(j.out, s_counts, s_ucounts_load)) :
        j \in {c \in countWords_jobs : EndsWith(c.out, s_counts)}}

\* the tasks in the order of their declaration
TemplateOrder ==
    <<"countWords", "loadWordCounts", "full", "mkdir_report", "build_report",
      "mkdir_report_2", "update_report", "publish_report">>

\* the two @follows(mkdir("report")) declare a task each
TemplateTasks ==
    {"countWords", "loadWordCounts", "full", "mkdir_report", "build_report",
     "mkdir_report_2", "update_report", "publish_report"}

\* a variant in which loadWordCounts does not wait for countWords
TemplateFollows_unordered(t) ==
    CASE t = "full" -> {"countWords", "loadWordCounts"}
      [] t = "build_report" -> {"mkdir_report"}
      [] t = "update_report" -> {"mkdir_report_2"}
      [] t = "publish_report" -> {"update_report"}
      [] OTHER -> {}

\* the tasks named by @follows and the tasks named as input
TemplateFollows(t) ==
    CASE t = "loadWordCounts" -> {"countWords"}
      [] t = "full" -> {"loadWordCounts"}
      [] t = "build_report" -> {"mkdir_report"}
      [] t = "update_report" -> {"mkdir_report_2"}
      [] t = "publish_report" -> {"update_report"}
      [] OTHER -> {}

TemplateJobs(t) ==
    CASE t = "countWords" -> countWords_jobs
      [] t = "loadWordCounts" -> loadWordCounts_jobs
      [] t \in {"mkdir_report", "mkdir_report_2"} ->
           {Job(t, 1, <<>>, s_report)}
      [] OTHER -> PlainJob(t)

\* a variant in which update_report cleans as well
TemplateClean_always(t) == TRUE

\* line 119: run_report(clean=True), line 133: run_report(clean=False)
TemplateClean(t) ==
    CASE t = "build_report" -> TRUE
      [] t = "update_report" -> FALSE

TemplateWrites(j, fs) ==
    CASE j.task = "countWords" -> j.out :> Counts(fs[j.ins[1]])
      [] j.task = "loadWordCounts" -> P_load_files(j.ins[1], j.out, fs)
      [] j.task \in {"mkdir_report", "mkdir_report_2"} -> j.out :> 0
      [] j.task \in {"build_report", "update_report"} ->
           run_report(TemplateClean(j.task), fs)
      [] OTHER -> Nothing

\* a variant in which the loader keeps a table that exists already
TemplateLoads_keeping(j, fs) ==
    CASE j.task = "loadWordCounts" /\ to_table(j.out) \notin DOMAIN tables ->
           P_load_tables(j.ins[1], j.out, fs)
      [] OTHER -> Nothing

TemplateLoads(j, fs) ==
    CASE j.task = "loadWordCounts" -> P_load_tables(j.ins[1], j.out, fs)
      [] OTHER -> Nothing

TemplateInit ==
    /\ pipeline = "template"
    /\ PARAMS = [database |-> "csvdb"]
    /\ target \in {"full"} \cup ReportTargets
    /\ \E c1 \in 1..MaxContent, c2 \in 0..MaxContent, old \in BOOLEAN :
          files = (IF c2 = 0
                   THEN pipeline_yml :> c1
                   ELSE (pipeline_yml :> c1) @@ (conf_py :> c2))
                      @@ (IF old THEN OldReport ELSE Nothing)
    /\ \E stale \in BOOLEAN :
          tables = IF stale
                   THEN [n \in {to_table(j.out) : j \in loadWordCounts_jobs}
                           |-> Counts(0)]
                   ELSE Nothing

(***************************************************************************)
(* pipeline_geneinfo                                                       *)
(***************************************************************************)
\* gene lists in genelists.dir
MaxGeneLists == 2
\* genes Entrez Gene holds for the host species
MaxGenes == 2
\* download_all(host, count=100) when the test parameter is 1
TestCount == 100

\* python: s.split(",")[0]
FirstField(s) ==
    IF Contains(s, s_comma)
    THEN SubSeq(s, 1, Min(Occurrences(s, s_comma)) - 1)
    ELSE s

\* python: s.split(",")
RECURSIVE Split(_)
Split(s) ==
    IF Contains(s, s_comma)
    THEN LET i == Min(Occurrences(s, s_comma))
         IN <<SubSeq(s, 1, i - 1)>> \o Split(SubSeq(s, i + 1, Len(s)))
    ELSE <<s>>

Fields(s) == {Split(s)[i] : i \in 1..Len(Split(s))}

\* python: ",".join(seq)
RECURSIVE Join(_)
Join(seq) ==
    IF Len(seq) = 0 THEN <<>>
    ELSE IF Len(seq) = 1 THEN seq[1]
    ELSE seq[1] \o s_comma \o Join(Tail(seq))

\* lines 109-111
example_pw(params) ==
    IF FirstField(params.my_gene_info_pathway) = s_all
    THEN s_kegg
    ELSE FirstField(params.my_gene_info_pathway)

\* lines 112-116; the value is only ever formatted with %s
example_homolo(params) ==
    IF FirstField(params.my_gene_info_homologene) = s_all
    THEN s_10090
    ELSE FirstField(params.my_gene_info_homologene)

\* the tasks in the order of their declaration
GeneinfoOrder ==
    <<"GetAndTranslateAllGenes", "AnnotateWithGO", "AnnotateWithPathway",
      "AnnotateWithHomologene", "AnnotateWithMousePathway", "AnnotateWithMGI",
      "AnnotateWithHPO", "annotate", "mkdir_genesetdbs", "MakeSubDBs", "full">>

GeneinfoModule(params) ==
    [names |-> [example_pw |-> example_pw(params),
                example_homolo |-> example_homolo(params),
                mgiannotations |-> params.my_gene_info_annotations],
     warned |-> {},
     declared |-> {"GetAndTranslateAllGenes", "AnnotateWithGO",
                   "AnnotateWithPathway", "AnnotateWithHomologene",
                   "AnnotateWithMousePathway", "AnnotateWithMGI",
                   "AnnotateWithHPO", "annotate", "mkdir_genesetdbs",
                   "MakeSubDBs", "full"},
     error |-> "none"]

\* the @active_if conditions
AnnotateWithGO_active == Contains(names.mgiannotations, s_go)

\* a variant that tests for the wrong annotation
AnnotateWithPathway_active_go == Contains(names.mgiannotations, s_go)

AnnotateWithPathway_active == Contains(names.mgiannotations, s_pathway)

AnnotateWithHomologene_active == Contains(names.mgiannotations, s_homologene)

AnnotateWithMousePathway_active == PARAMS.homologues_mousepathway = 1

AnnotateWithMGI_active == PARAMS.homologues_mgi = 1

AnnotateWithHPO_active == PARAMS.homologues_hpo = 1

MakeSubDBs_active == PARAMS.db_subset = 1

GeneinfoActive(t) ==
    CASE t = "AnnotateWithGO" -> AnnotateWithGO_active
      [] t = "AnnotateWithPathway" -> AnnotateWithPathway_active
      [] t = "AnnotateWithHomologene" -> AnnotateWithHomologene_active
      [] t = "AnnotateWithMousePathway" -> AnnotateWithMousePathway_active
      [] t = "AnnotateWithMGI" -> AnnotateWithMGI_active
      [] t = "AnnotateWithHPO" -> AnnotateWithHPO_active
      [] t = "MakeSubDBs" -> MakeSubDBs_active
      [] OTHER -> TRUE

\* a variant in which annotate lacks its @follows
GeneinfoFollows_early(t) ==
    CASE t = "AnnotateWithGO" -> {"GetAndTranslateAllGenes"}
      [] t = "AnnotateWithPathway" -> {"GetAndTranslateAllGenes"}
      [] t = "AnnotateWithHomologene" -> {"GetAndTranslateAllGenes"}
      [] t = "AnnotateWithMousePathway" -> {"AnnotateWithHomologene"}
      [] t = "AnnotateWithMGI" -> {"AnnotateWithHomologene"}
      [] t = "AnnotateWithHPO" -> {"AnnotateWithHomologene"}
      [] t = "MakeSubDBs" -> {"mkdir_genesetdbs", "annotate"}
      [] t = "full" ->
           {"MakeSubDBs", "AnnotateWithGO", "AnnotateWithPathway",
            "AnnotateWithHomologene", "AnnotateWithMGI",
            "AnnotateWithMousePathway", "AnnotateWithHPO"}
      [] OTHER -> {}

\* the tasks named by @follows and the tasks named as input
GeneinfoFollows(t) ==
    CASE t = "AnnotateWithGO" -> {"GetAndTranslateAllGenes"}
      [] t = "AnnotateWithPathway" -> {"GetAndTranslateAllGenes"}
      [] t = "AnnotateWithHomologene" -> {"GetAndTranslateAllGenes"}
      [] t = "AnnotateWithMousePathway" -> {"AnnotateWithHomologene"}
      [] t = "AnnotateWithMGI" -> {"AnnotateWithHomologene"}
      [] t = "AnnotateWithHPO" -> {"AnnotateWithHomologene"}
      [] t = "annotate" ->
           {"AnnotateWithGO", "AnnotateWithPathway", "AnnotateWithHomologene",
            "AnnotateWithMGI", "AnnotateWithMousePathway", "AnnotateWithHPO"}
      [] t = "MakeSubDBs" -> {"mkdir_genesetdbs", "annotate"}
      [] t = "full" -> {"MakeSubDBs"}
      [] OTHER -> {}

\* 'ensemblg2symbol_10090$geneid.load' and 'ensemblg2symbol_9606$geneid.load'
symbol_load(species) ==
    s_ensemblg2 \o s_symbol_ \o species \o s_geneid \o s_load

\* the files of genelists.dir that the glob "genelists.dir/*.tsv" matches
GeneLists(fs) ==
    {f \in DOMAIN fs : StartsWith(f, s_genelists_dir) /\ EndsWith(f, s_tsv)}

\* the place of a gene list among the sorted matches of the glob
GeneListIndex(f, fs) == Cardinality({g \in GeneLists(fs) : Len(g) <= Len(f)})

\* regex("genelists.dir/(.*).tsv") with r"genesetdbs.dir/\1"
MakeSubDBs_output(f) ==
    s_genesetdbs_dir \o s_slash
        \o SubSeq(f, Len(s_genelists_dir) + 1, Len(f) - Len(s_tsv))

GeneinfoJobs(t) ==
    CASE t = "GetAndTranslateAllGenes" -> {Job(t, 1, <<>>, s_allgenes_tsv)}
      [] t = "AnnotateWithGO" ->
           {Job(t, 1, <<s_allgenes_tsv>>,
                SuffixReplace(s_allgenes_tsv, s_tsv,
                              s_ensemblg2 \o s_go \o s_esc_annot_load))}
      [] t = "AnnotateWithPathway" ->
           {Job(t, 1, <<s_allgenes_tsv>>,
                SuffixReplace(s_allgenes_tsv, s_tsv,
                    s_ensemblg2 \o names.example_pw \o s_esc_annot_load))}
      [] t = "AnnotateWithHomologene" ->
           {Job(t, 1, <<s_allgenes_tsv>>,
                SuffixReplace(s_allgenes_tsv, s_tsv,
                    s_ensemblg2 \o s_symbol_ \o names.example_homolo
                        \o s_esc_annot_load))}
      [] t = "AnnotateWithMousePathway" ->
           {Job(t, 1, <<symbol_load(s_10090)>>,
                SuffixReplace(symbol_load(s_10090), s_load,
                    s_ensemblg2 \o s_mousepathway \o s_esc_annot_load))}
      [] t = "AnnotateWithMGI" ->
           {Job(t, 1, <<symbol_load(s_10090)>>,
                SuffixReplace(symbol_load(s_10090), s_load,
                    s_ensemblg2 \o s_mgi \o s_esc_annot_load))}
      [] t = "AnnotateWithHPO" ->
           {Job(t, 1, <<symbol_load(s_9606)>>,
                SuffixReplace(symbol_load(s_9606), s_load,
                    s_ensemblg2 \o s_hpo \o s_esc_annot_load))}
      [] t = "annotate" ->
           {Job(t, 1, <<s_allgenes_tsv>>,
                SuffixReplace(s_allgenes_tsv, s_tsv, s_tsv))}
      [] t = "mkdir_genesetdbs" -> {Job(t, 1, <<>>, s_genesetdbs_dir)}
      [] t = "MakeSubDBs" ->
           {Job(t, GeneListIndex(f, files), <<f>>, MakeSubDBs_output(f)) :
               f \in GeneLists(files)}
      [] t = "full" -> PlainJob(t)

\* EntrezGeneAnnotation.download_all: the Entrez ids of the host's genes,
\* the first count of them when a count is given
EntrezGenes == [i \in 1..MaxGenes |-> <<"entrez", i>>]

download_all(count) ==
    SubSeq(EntrezGenes, 1, Min({count, Len(EntrezGenes)}))

\* the symbol mygene.info gives for an Entrez id
Symbol(id) == <<"symbol", id[2]>>

\* geneinfo.runall: the tables of an annotation are loaded into the database
\* and each load leaves the flag file <table>.load
runall_tables(T) == [n \in T |-> 1]

runall_files(T) == [n \in {t \o s_load : t \in T} |-> 0]

\* the species, or pathway databases, a comma separated parameter names
Listed(value, universe) ==
    IF FirstField(value) = s_all THEN universe ELSE Fields(value)

\* the tables each task loads, as its docstring lists them
GeneinfoTables(t) ==
    CASE t = "GetAndTranslateAllGenes" ->
           {s_ensemblg2 \o s_entrez \o s_geneid,
            s_ensemblg2 \o s_ensemblt \o s_other,
            s_ensemblg2 \o s_ensemblp \o s_other,
            s_ensemblg2 \o s_symbol_ \o PARAMS.entrez_host \o s_geneid}
      [] t = "AnnotateWithGO" ->
           {s_ensemblg2 \o s_go \o s_annot, s_go \o s_details, s_go \o s_ont}
      [] t = "AnnotateWithPathway" ->
           UNION {{s_ensemblg2 \o pw \o s_annot, pw \o s_details} :
                    pw \in Listed(PARAMS.my_gene_info_pathway,
                                  {s_kegg, s_reactome})}
      [] t = "AnnotateWithHomologene" ->
           {s_ensemblg2 \o s_symbol_ \o sp \o s_geneid :
               sp \in Listed(PARAMS.my_gene_info_homologene,
                             {s_10090, s_9606})}
      [] t = "AnnotateWithMousePathway" ->
           {s_ensemblg2 \o s_mousepathway \o s_annot,
            s_mousepathway \o s_details}
      [] t = "AnnotateWithMGI" ->
           {s_ensemblg2 \o s_mgi \o s_annot, s_mgi \o s_details}
      [] t = "AnnotateWithHPO" ->
           {s_ensemblg2 \o s_hpo \o s_annot, s_hpo \o s_details,
            s_hpo \o s_ont}
      [] OTHER -> {}

\* lines 141-145
entrezgenelist ==
    IF PARAMS.test = 1
    THEN download_all(TestCount)
    ELSE download_all(Len(EntrezGenes))

\* lines 158-159: the symbol column of entrez2symbol_<host>.tsv
genesymbols == [i \in 1..Len(entrezgenelist) |-> Symbol(entrezgenelist[i])]

\* lines 170-173: one line per element of genesymbols
GetAndTranslateAllGenes_output == genesymbols

GeneinfoWrites(j, fs) ==
    CASE j.task = "GetAndTranslateAllGenes" ->
           (j.out :> GetAndTranslateAllGenes_output)
               @@ runall_files(GeneinfoTables(j.task))
      [] j.task = "mkdir_genesetdbs" -> j.out :> 0
      [] j.task = "MakeSubDBs" -> j.out :> 0
      [] OTHER -> runall_files(GeneinfoTables(j.task))

GeneinfoLoads(j, fs) == runall_tables(GeneinfoTables(j.task))

\* the configurations: the optional annotations of mygene.info in any
\* combination
AnnotationLists ==
    {Join(seq) : seq \in {<<>>, <<s_go>>, <<s_pathway>>, <<s_homologene>>,
                          <<s_go, s_pathway>>, <<s_go, s_homologene>>,
                          <<s_pathway, s_homologene>>,
                          <<s_go, s_pathway, s_homologene>>}}

\* the homologues_mousepathway, homologues_mgi and homologues_hpo switches
Homologues == {<<0, 0, 0>>, <<1, 0, 0>>, <<0, 1, 0>>, <<0, 0, 1>>, <<1, 1, 1>>}

GeneinfoConfig(a, h, hom, sub, tst) ==
    [my_gene_info_annotations |-> a,
     my_gene_info_pathway |-> s_all,
     my_gene_info_homologene |-> h,
     homologues_mousepathway |-> hom[1],
     homologues_mgi |-> hom[2],
     homologues_hpo |-> hom[3],
     db_subset |-> sub,
     test |-> tst,
     entrez_host |-> s_9606]

AllAnnotations == Join(<<s_go, s_pathway, s_homologene>>)

\* every list of annotations with the homologue steps switched on; every
\* choice of the homologue steps, of the species and of db_subset with all
\* the annotations listed; and the test configuration
GeneinfoConfigs ==
    {GeneinfoConfig(a, s_all, <<1, 1, 1>>, 1, 0) : a \in AnnotationLists}
        \cup {GeneinfoConfig(AllAnnotations, h, hom, sub, 0) :
                 h \in {s_all, s_9606}, hom \in Homologues, sub \in {0, 1}}
        \cup {GeneinfoConfig(AllAnnotations, s_all, <<0, 0, 0>>, sub, 1) :
                 sub \in {0, 1}}

GeneListName(i) == s_genelists_dir \o <<"l", "i", "s", "t">>
                       \o [k \in 1..i |-> "x"] \o s_tsv

GeneinfoInit ==
    /\ pipeline = "geneinfo"
    /\ target = "full"
    /\ PARAMS \in GeneinfoConfigs
    /\ files = [f \in {GeneListName(i) : i \in 1..MaxGeneLists} |-> 0]
    /\ tables = Nothing

(***************************************************************************)
(* pipeline_homer                                                          *)
(***************************************************************************)
\* PipelinePeakcalling.readDesignTable: the rows of design.tsv, each with
\* the columns bamReads, bamControl and Replicate
readDesignTable(fs) == fs[s_design_tsv]

Column(df, c) == [i \in 1..Len(df) |-> df[i][c]]

\* lines 89-94: the branch taken when design.tsv exists
DesignPresent(fs) ==
    LET df == readDesignTable(fs)
        inputbams == Column(df, "bamControl")
        chipbams == Column(df, "bamReads")
    IN [names |-> [df |-> df, INPUTBAMS |-> inputbams, CHIPBAMS |-> chipbams,
                   TOTALBAMS |-> inputbams \o chipbams],
        warned |-> {}]

\* a variant of the branch below that issues no warning
DesignMissing_silent ==
    [names |-> [INPUTBAMS |-> <<>>, CHIPBAMS |-> <<>>], warned |-> {}]

\* lines 96-99: the branch taken when design.tsv is missing
DesignMissing ==
    [names |-> [INPUTBAMS |-> <<>>, CHIPBAMS |-> <<>>],
     warned |-> {"design.tsv is not located within the folder"}]

DesignCheck(fs) ==
    IF s_design_tsv \in DOMAIN fs THEN DesignPresent(fs) ELSE DesignMissing

\* the decorated functions in the order of the file, each with the tasks its
\* decorators declare and the module-level names their arguments refer to.
\* computeMatrix (lines 533-540), an unfinished stub whose decorator is not
\* closed, declares no task and is left out.
HomerDeclarations ==
    <<[tasks |-> {"loadDesignTable"}, refs |-> {}],
      [tasks |-> {"makeTagDirectoryInput"}, refs |-> {"INPUTBAMS"}],
      [tasks |-> {"makeTagDirectoryChips"}, refs |-> {"CHIPBAMS"}],
      [tasks |-> {"findPeaks"}, refs |-> {}],
      [tasks |-> {"bedConversion"}, refs |-> {}],
      [tasks |-> {"annotatePeaks"}, refs |-> {}],
      [tasks |-> {"findMotifs"}, refs |-> {}],
      [tasks |-> {"annotatePeaksRaw"}, refs |-> {}],
      [tasks |-> {"getDiffExprs"}, refs |-> {}],
      [tasks |-> {"mkdir_Replicates", "getDiffPeaksReplicates"},
       refs |-> {}],
      [tasks |-> {"mkdir_Coverage", "coverage_plot"},
       refs |-> {"CHIPBAMS", "INPUTBAMS"}],
      [tasks |-> {"mkdir_Fingerprint", "fingerprint_plot"},
       refs |-> {"CHIPBAMS", "INPUTBAMS"}],
      [tasks |-> {"mkdir_FragmentSize", "fragment_size"},
       refs |-> {"CHIPBAMS", "INPUTBAMS"}],
      [tasks |-> {"mkdir_bamCoverage", "bamCoverage"},
       refs |-> {"TOTALBAMS"}],
      [tasks |-> {"mkdir_bamCompare", "bamCompare"},
       refs |-> {"CHIPBAMS", "INPUTBAMS"}],
      [tasks |-> {"mkdir_Summary", "multiBamSummary"},
       refs |-> {"CHIPBAMS", "INPUTBAMS"}],
      [tasks |-> {"multiBwSummary"}, refs |-> {}],
      [tasks |-> {"mkdir_plot", "plotCorrelation"}, refs |-> {}],
      [tasks |-> {"plotPCA"}, refs |-> {}],
      [tasks |-> {"full"}, refs |-> {}]>>

\* the declarations that raise NameError in the namespace ns
Undefined(ns) ==
    {i \in 1..Len(HomerDeclarations) :
        ~(HomerDeclarations[i].refs \subseteq DOMAIN ns)}

\* the import stops at the first declaration that refers to a name that is
\* not defined
HomerModule(fs) ==
    LET branch == DesignCheck(fs)
        bad == Undefined(branch.names)
        last == IF bad = {} THEN Len(HomerDeclarations) ELSE Min(bad) - 1
    IN [names |-> branch.names,
        warned |-> branch.warned,
        declared |-> UNION {HomerDeclarations[i].tasks : i \in 1..last},
        error |-> IF bad = {} THEN "none" ELSE "NameError"]

HomerActive(t) ==
    CASE t \in {"makeTagDirectoryInput", "makeTagDirectoryChips", "findPeaks",
                "bedConversion", "annotatePeaks", "findMotifs",
                "annotatePeaksRaw", "getDiffExprs",
                "getDiffPeaksReplicates"} -> PARAMS.homer
      [] t \in {"coverage_plot", "fingerprint_plot", "fragment_size",
                "multiBamSummary", "multiBwSummary", "plotCorrelation",
                "plotPCA"} -> PARAMS.deeptools
      [] t = "bamCoverage" -> PARAMS.deep_bam_coverage /\ PARAMS.deeptools
      [] t = "bamCompare" -> PARAMS.deep_bam_compare /\ PARAMS.deeptools
      [] OTHER -> TRUE

HomerFollows(t) ==
    CASE t = "makeTagDirectoryInput" -> {"loadDesignTable"}
      [] t = "makeTagDirectoryChips" -> {"loadDesignTable"}
      [] t = "findPeaks" -> {"makeTagDirectoryChips"}
      [] t = "bedConversion" -> {"findPeaks"}
      [] t = "annotatePeaks" -> {"findPeaks"}
      [] t = "findMotifs" -> {"findPeaks"}
      [] t = "annotatePeaksRaw" -> {"makeTagDirectoryChips"}
      [] t = "getDiffExprs" -> {"annotatePeaksRaw"}
      [] t = "getDiffPeaksReplicates" ->
           {"mkdir_Replicates", "makeTagDirectoryChips"}
      [] t = "coverage_plot" -> {"mkdir_Coverage", "loadDesignTable"}
      [] t = "fingerprint_plot" -> {"mkdir_Fingerprint", "loadDesignTable"}
      [] t = "fragment_size" -> {"mkdir_FragmentSize", "loadDesignTable"}
      [] t = "bamCoverage" -> {"mkdir_bamCoverage"}
      [] t = "bamCompare" -> {"mkdir_bamCompare"}
      [] t = "multiBamSummary" -> {"loadDesignTable", "mkdir_Summary"}
      [] t = "multiBwSummary" -> {"bamCoverage"}
      [] t = "plotCorrelation" ->
           {"mkdir_plot", "multiBamSummary", "multiBwSummary"}
      [] t = "plotPCA" -> {"multiBamSummary", "multiBwSummary"}
      [] t = "full" ->
           {"loadDesignTable", "bedConversion", "annotatePeaks",
            "annotatePeaksRaw", "getDiffExprs", "getDiffPeaksReplicates",
            "findMotifs", "coverage_plot", "fingerprint_plot", "bamCompare",
            "bamCoverage", "multiBamSummary", "multiBwSummary",
            "plotCorrelation", "plotPCA"}
      [] OTHER -> {}

\* regex("(.*).bam") with r"\1/\1.txt"
makeTagDirectory_output(bam) ==
    Group1(bam, s_bam) \o s_slash \o Group1(bam, s_bam) \o s_txt
        \o AfterMatch(bam, s_bam)

\* one job for each element of the list that the regular expression matches
makeTagDirectory_jobs(t, bams) ==
    {Job(t, i, <<bams[i]>>, makeTagDirectory_output(bams[i])) :
        i \in {n \in 1..Len(bams) : PatPlaces(bams[n], s_bam) /= {}}}

\* regex("(.*)/(.*).txt"): the places of the slash that ends the first group
findPeaks_slashes(f) ==
    {p \in 1..Len(f) :
        f[p] = "/" /\ \E q \in PatPlaces(f, s_txt) : q >= p + 1}

\* ... with r"\1/regions.txt"
findPeaks_output(f) ==
    SubSeq(f, 1, Max(findPeaks_slashes(f)) - 1) \o s_regions_txt
        \o AfterMatch(f, s_txt)

\* regex("(.*)/regions.txt") with r"\1/\1.bed"
bedConversion_output(f) ==
    Group1(f, s_regions_txt) \o s_slash \o Group1(f, s_regions_txt) \o s_bed
        \o AfterMatch(f, s_regions_txt)

\* regex("(.*)/regions.txt") with r"\1/annotate.txt" or r"\1/motifs.txt"
afterPeaks_output(f, name) ==
    Group1(f, s_regions_txt) \o name \o AfterMatch(f, s_regions_txt)

\* regex("(.*).bam") with r"DeepOutput.dir/bamCoverage.dir/\1.bw"
bamCoverage_output(bam) ==
    s_bamCoverage_dir \o s_slash \o Group1(bam, s_bam) \o s_bw
        \o AfterMatch(bam, s_bam)

\* suffix('.bam') with r"DeepOutput.dir/bamCompare.dir/\1.bw"
bamCompare_output(bam) ==
    s_bamCompare_dir \o s_slash
        \o SubSeq(bam, 1, Len(bam) - Len(s_bam)) \o s_bw

\* the declared outputs of a set of jobs, in the order of the jobs
RECURSIVE OutputsFrom(_, _)
OutputsFrom(js, k) ==
    IF \A j \in js : j.k < k THEN <<>>
    ELSE LET here == {j \in js : j.k = k}
         IN (IF here = {} THEN <<>> ELSE <<(CHOOSE j \in here : TRUE).out>>)
                \o OutputsFrom(js, k + 1)

Outputs(js) == OutputsFrom(js, 1)

RECURSIVE HomerJobs(_)
HomerJobs(t) ==
    CASE t = "loadDesignTable" ->
           {Job(t, 1, <<s_design_tsv>>,
                SuffixReplace(s_design_tsv, s_tsv, s_load))}
      [] t = "makeTagDirectoryInput" ->
           makeTagDirectory_jobs(t, names.INPUTBAMS)
      [] t = "makeTagDirectoryChips" ->
           makeTagDirectory_jobs(t, names.CHIPBAMS)
      [] t = "findPeaks" ->
           {Job(t, j.k, <<j.out>>, findPeaks_output(j.out)) :
               j \in {c \in HomerJobs("makeTagDirectoryChips") :
                        findPeaks_slashes(c.out) /= {}}}
      [] t = "bedConversion" ->
           {Job(t, j.k, <<j.out>>, bedConversion_output(j.out)) :
               j \in {c \in HomerJobs("findPeaks") :
                        PatPlaces(c.out, s_regions_txt) /= {}}}
      [] t = "annotatePeaks" ->
           {Job(t, j.k, <<j.out>>, afterPeaks_output(j.out, s_annotate_txt)) :
               j \in {c \in HomerJobs("findPeaks") :
                        PatPlaces(c.out, s_regions_txt) /= {}}}
      [] t = "findMotifs" ->
           {Job(t, j.k, <<j.out>>, afterPeaks_output(j.out, s_motifs_txt)) :
               j \in {c \in HomerJobs("findPeaks") :
                        PatPlaces(c.out, s_regions_txt) /= {}}}
      [] t = "annotatePeaksRaw" ->
           {Job(t, 1, Outputs(HomerJobs("makeTagDirectoryChips")),
                s_countTable_peaks_txt)}
      [] t = "getDiffExprs" ->
           {Job(t, j.k, <<j.out>>,
                SuffixReplace(j.out, s_peaks_txt, s_diffexprs_txt)) :
               j \in {c \in HomerJobs("annotatePeaksRaw") :
                        EndsWith(c.out, s_peaks_txt)}}
      [] t = "mkdir_Replicates" -> {Job(t, 1, <<>>, s_Replicates_dir)}
      [] t = "getDiffPeaksReplicates" ->
           {Job(t, 1, <<>>, s_Replicates_dir \o s_slash \o s_outputPeaks_txt)}
      [] t = "mkdir_Coverage" -> {Job(t, 1, <<>>, s_Coverage_dir)}
      [] t = "coverage_plot" ->
           {Job(t, 1, names.CHIPBAMS \o names.INPUTBAMS,
                s_Coverage_dir \o s_coverage_plot_tab)}
      [] t = "mkdir_Fingerprint" -> {Job(t, 1, <<>>, s_Fingerprint_dir)}
      [] t = "fingerprint_plot" ->
           {Job(t, 1, names.CHIPBAMS \o names.INPUTBAMS,
                s_Fingerprint_dir \o s_fingerprints_plot_tab)}
      [] t = "mkdir_FragmentSize" -> {Job(t, 1, <<>>, s_FragmentSize_dir)}
      [] t = "fragment_size" ->
           {Job(t, 1, names.CHIPBAMS \o names.INPUTBAMS,
                s_FragmentSize_dir \o s_FragmentSize_png)}
      [] t = "mkdir_bamCoverage" -> {Job(t, 1, <<>>, s_bamCoverage_dir)}
      [] t = "bamCoverage" ->
           {Job(t, i, <<names.TOTALBAMS[i]>>,
                bamCoverage_output(names.TOTALBAMS[i])) :
               i \in {n \in 1..Len(names.TOTALBAMS) :
                        PatPlaces(names.TOTALBAMS[n], s_bam) /= {}}}
      [] t = "mkdir_bamCompare" -> {Job(t, 1, <<>>, s_bamCompare_dir)}
      [] t = "bamCompare" ->
           \* the two lists of the tuple are the inputs of two jobs
           {Job(t, i, <<names.CHIPBAMS, names.INPUTBAMS>>[i],
                bamCompare_output(<<names.CHIPBAMS, names.INPUTBAMS>>[i][1])) :
               i \in {n \in 1..2 :
                        /\ Len(<<names.CHIPBAMS, names.INPUTBAMS>>[n]) > 0
                        /\ EndsWith(<<names.CHIPBAMS, names.INPUTBAMS>>[n][1],
                                    s_bam)}}
      [] t = "mkdir_Summary" -> {Job(t, 1, <<>>, s_Summary_dir)}
      [] t = "multiBamSummary" ->
           {Job(t, 1, names.CHIPBAMS \o names.INPUTBAMS,
                s_Summary_dir \o s_Bam_Summary_npz)}
      [] t = "multiBwSummary" ->
           {Job(t, 1, Outputs(HomerJobs("bamCoverage")),
                s_Summary_dir \o s_bw_summary_npz)}
      [] t = "mkdir_plot" -> {Job(t, 1, <<>>, s_plot_dir)}
      [] t \in {"plotCorrelation", "plotPCA"} ->
           LET npz == Outputs(HomerJobs("multiBamSummary"))
                          \o Outputs(HomerJobs("multiBwSummary"))
           IN {Job(t, i, <<npz[i]>>,
                   SubSeq(npz[i], 1, Len(npz[i]) - Len(s_npz))
                       \o (IF t = "plotPCA" THEN s_PCA ELSE s_corr)) :
                  i \in {n \in 1..Len(npz) : EndsWith(npz[n], s_npz)}}
      [] t = "full" -> PlainJob(t)

\* python: "%s" % n for a number of one digit
Digit(n) == <<<<"0", "1", "2", "3", "4", "5", "6", "7", "8", "9">>[n + 1]>>

\* python: len(s.split("/"))
Parts(s) == Cardinality(Occurrences(s, s_slash)) + 1

\* lines 205-206 and line 250: directory, _ = <name>.split("/")
Directory(s) == SubSeq(s, 1, Min(Occurrences(s, s_slash)) - 1)

\* lines 205-211: the rows of the design whose bamReads is the bam file the
\* tag directory is taken to come from
findPeaks_slice(j) ==
    {i \in 1..Len(names.df) :
        names.df[i].bamReads = Directory(Strip(j.ins[1], s_txt)) \o s_bam}

\* the python exceptions the body of a task function raises
HomerRaises(j) ==
    CASE j.task = "findPeaks" ->
           \/ Parts(Strip(j.ins[1], s_txt)) /= 2
           \/ findPeaks_slice(j) = {}
      [] j.task = "findMotifs" -> Parts(j.ins[1]) /= 2
      [] j.task \in {"coverage_plot", "fingerprint_plot",
                     "multiBamSummary"} ->
           PARAMS.deep_ignore_dups \notin BOOLEAN
      [] j.task = "bamCoverage" -> PARAMS.deep_extendreads \notin BOOLEAN
      [] j.task = "bamCompare" -> Len(j.ins) < 2
      [] OTHER -> FALSE

\* the file findPeaks writes with -o %(findpeaks_output)s: with "auto", the
\* regions file of the tag directory
findPeaks_written(j) ==
    IF PARAMS.findpeaks_output = s_auto
    THEN Directory(Strip(j.ins[1], s_txt)) \o s_regions_txt
    ELSE PARAMS.findpeaks_output

\* lines 295-320: x is left at the last replicate of the loop
getDiffPeaksReplicates_written ==
    s_Replicates_dir \o s_slash \o s_Repeat
        \o Digit(Max(Range(Column(names.df, "Replicate"))))
        \o s_dot \o s_outputPeaks_txt

\* the files the command of a job writes
HomerWritten(j) ==
    CASE j.task = "loadDesignTable" -> {j.out}
      [] j.task \in {"makeTagDirectoryInput", "makeTagDirectoryChips"} ->
           {Strip(j.ins[1], s_bam) \o s_sam,
            Strip(j.ins[1], s_bam) \o s_slash \o Strip(j.ins[1], s_bam)
                \o s_txt}
      [] j.task = "findPeaks" -> {findPeaks_written(j)}
      [] j.task = "findMotifs" -> {s_Motif_log}
      [] j.task = "getDiffExprs" -> {s_diffOutput_txt}
      [] j.task = "getDiffPeaksReplicates" -> {getDiffPeaksReplicates_written}
      [] j.task = "full" -> {}
      \* the command writes to %(outfile)s, or to the path that is the
      \* declared output
      [] OTHER -> {j.out}

HomerWrites(j, fs) == [f \in HomerWritten(j) |-> 0]

HomerLoads(j, fs) ==
    CASE j.task = "loadDesignTable" -> P_load_tables(j.ins[1], j.out, fs)
      [] OTHER -> Nothing

\* the design tables of the model
Row(reads, control, rep) ==
    [bamReads |-> reads, bamControl |-> control, Replicate |-> rep]

Designs ==
    {<<Row(s_s1_bam, s_c1_bam, 1)>>,
     <<Row(s_s1_bam, s_c1_bam, 1), Row(s_s2_bam, s_c1_bam, 2)>>,
     <<Row(s_b1_bam, s_c1_bam, 1)>>,
     <<Row(s_s1_bam, s_c1_bam, 1), Row(s_c1_bam, s_b1_bam, 2)>>}

Bams == {s_s1_bam, s_s2_bam, s_b1_bam, s_c1_bam}

HomerTargets ==
    {"makeTagDirectoryInput", "getDiffExprs", "getDiffPeaksReplicates",
     "findMotifs", "bamCoverage"}

HomerInit ==
    /\ pipeline = "homer"
    /\ target \in HomerTargets
    /\ \E h, d \in BOOLEAN :
          PARAMS = [homer |-> h, deeptools |-> d, deep_bam_coverage |-> TRUE,
                    deep_bam_compare |-> TRUE, deep_ignore_dups |-> TRUE,
                    deep_extendreads |-> FALSE, findpeaks_output |-> s_auto]
    /\ \E design \in Designs \cup {<<>>} :
          files = [f \in Bams |-> 0]
                      @@ (IF design = <<>> THEN Nothing
                          ELSE s_design_tsv :> design)
    /\ tables = Nothing

(***************************************************************************)
(* pipeline_scrnaseqqc                                                     *)
(***************************************************************************)
\* samples in the working directory
MaxSamples == 2

SampleName(i) == <<"s">> \o Digit(i)

\* regex(pre(.+)post) searched in s: the places where a match may start
RegexStarts(s, pre, post) ==
    {p \in 1..Len(s) :
        /\ PatAt(s, p, pre)
        /\ \E q \in (p + Len(pre) + 1)..(Len(s) + 1) : PatAt(s, q, post)}

\* the leftmost match, its group taken greedily, and what is around it
RegexMatch(s, pre, post) ==
    LET p == Min(RegexStarts(s, pre, post))
        q == Max({n \in (p + Len(pre) + 1)..(Len(s) + 1) : PatAt(s, n, post)})
    IN [before |-> SubSeq(s, 1, p - 1),
        group |-> SubSeq(s, p + Len(pre), q - 1),
        after |-> SubSeq(s, q + Len(post), Len(s))]

\* the substitution of the match by rpre \1 rpost
Sub(m, rpre, rpost) == m.before \o rpre \o m.group \o rpost \o m.after

\* os.path.dirname
Dirname(f) ==
    IF Contains(f, s_slash)
    THEN SubSeq(f, 1, Max(Occurrences(f, s_slash)) - 1)
    ELSE <<>>

\* formatter(): {basename}, the name without its directory and extension
Basename(f) ==
    LET name == IF Contains(f, s_slash)
                THEN SubSeq(f, Max(Occurrences(f, s_slash)) + 1, Len(f))
                ELSE f
    IN IF Contains(name, s_dot)
       THEN SubSeq(name, 1, Max(Occurrences(name, s_dot)) - 1)
       ELSE name

\* glob: those of the names, in their order, that exist
Existing(seq, fs) ==
    LET Exists(f) == f \in DOMAIN fs
    IN SelectSeq(seq, Exists)

\* the file names without the empty output of a task that declares none
Declared(seq) ==
    LET IsFile(f) == f /= NoFile
    IN SelectSeq(seq, IsFile)

FastqNames(suffix) == [i \in 1..MaxSamples |-> SampleName(i) \o suffix]

BamNames == [i \in 1..MaxSamples |-> s_here \o SampleName(i) \o s_bam]

\* lines 143-155: FASTQ_DIR "?!" stands for the working directory; the globs
\* of FASTQ_FILES are expanded when the jobs are made
FASTQ_FILES(fs) ==
    Existing(FastqNames(s_fastq_1_gz) \o FastqNames(s_fastq_2_gz)
                 \o FastqNames(s_fastq_gz), fs)

\* the tasks in the order of their declaration
ScrnaseqqcOrder ==
    <<"mkdir_transcripts", "makeRepTranscripts", "makeSplicedCatalog",
      "addSpikeIn", "mkdir_ercc", "addSpikeInTranscripts",
      "mkdir_sailfish_index", "makeSailfishIndex", "mkdir_tpm",
      "quantifyWithSailfish", "transformSailfishOutput", "mergeSailfish",
      "loadSailfish", "mkdir_dedup", "dedupBamFiles", "mkdir_feature_counts",
      "buildFeatureCounts", "aggregateFeatureCounts", "loadFeatureCounts",
      "quantify_expression", "mkdir_stats", "getContextStats",
      "getAlignmentStats", "getPicardAlignStats", "getPicardInsertStats",
      "getDuplicationStats", "getCoverageStats", "aggregateQcTables",
      "cleanQcTable", "loadQcMeasures", "get_mapping_stats", "loadMetaData",
      "full", "mkdir_report", "build_report", "mkdir_report_2",
      "update_report", "publish_report">>

ScrnaseqqcTasks ==
    {"mkdir_transcripts", "makeRepTranscripts", "makeSplicedCatalog",
     "addSpikeIn", "mkdir_ercc", "addSpikeInTranscripts",
     "mkdir_sailfish_index", "makeSailfishIndex", "mkdir_tpm",
     "quantifyWithSailfish", "transformSailfishOutput", "mergeSailfish",
     "loadSailfish", "mkdir_dedup", "dedupBamFiles", "mkdir_feature_counts",
     "buildFeatureCounts", "aggregateFeatureCounts", "loadFeatureCounts",
     "quantify_expression", "mkdir_stats", "getContextStats",
     "getAlignmentStats", "getPicardAlignStats", "getPicardInsertStats",
     "getDuplicationStats", "getCoverageStats", "aggregateQcTables",
     "cleanQcTable", "loadQcMeasures", "get_mapping_stats", "loadMetaData",
     "full", "mkdir_report", "build_report", "mkdir_report_2",
     "update_report", "publish_report"}

\* lines 155 and 408: the globs of the module body are expanded at import
ScrnaseqqcModule(params, fs) ==
    [names |-> [GENESETS |-> Existing(<<s_geneset_gtf>>, fs),
                BAMFILES |-> Existing(BamNames, fs)],
     warned |-> {},
     declared |-> ScrnaseqqcTasks,
     error |-> "none"]

\* a variant in which getCoverageStats is fed by aggregateQcTables
ScrnaseqqcFollows_cyclic(t) ==
    CASE t = "getCoverageStats" -> {"aggregateQcTables"}
      [] t = "aggregateQcTables" ->
           {"getDuplicationStats", "getPicardAlignStats",
            "getPicardInsertStats", "getAlignmentStats", "getContextStats",
            "getCoverageStats"}
      [] t = "cleanQcTable" -> {"aggregateQcTables"}
      [] t = "loadQcMeasures" -> {"cleanQcTable"}
      [] OTHER -> {}

\* a variant in which full does not name loadMetaData
ScrnaseqqcFollows_nometa(t) ==
    CASE t = "makeRepTranscripts" -> {"mkdir_transcripts"}
      [] t = "makeSplicedCatalog" -> {"makeRepTranscripts"}
      [] t = "addSpikeIn" -> {"makeSplicedCatalog"}
      [] t = "addSpikeInTranscripts" -> {"addSpikeIn", "mkdir_ercc"}
      [] t = "makeSailfishIndex" ->
           {"mkdir_sailfish_index", "addSpikeInTranscripts", "addSpikeIn"}
      [] t = "quantifyWithSailfish" ->
           {"mkdir_tpm", "makeSailfishIndex", "addSpikeInTranscripts"}
      [] t = "transformSailfishOutput" -> {"quantifyWithSailfish"}
      [] t = "mergeSailfish" -> {"transformSailfishOutput"}
      [] t = "loadSailfish" -> {"mergeSailfish"}
      [] t = "dedupBamFiles" -> {"mkdir_dedup"}
      [] t = "buildFeatureCounts" ->
           {"mkdir_feature_counts", "dedupBamFiles", "addSpikeInTranscripts"}
      [] t = "aggregateFeatureCounts" -> {"buildFeatureCounts"}
      [] t = "loadFeatureCounts" -> {"aggregateFeatureCounts"}
      [] t = "quantify_expression" -> {"loadFeatureCounts", "loadSailfish"}
      [] t = "getContextStats" -> {"mkdir_stats"}
      [] t = "aggregateQcTables" ->
           {"getDuplicationStats", "getPicardAlignStats",
            "getPicardInsertStats", "getAlignmentStats", "getContextStats",
            "getCoverageStats"}
      [] t = "cleanQcTable" -> {"aggregateQcTables"}
      [] t = "loadQcMeasures" -> {"cleanQcTable"}
      [] t = "get_mapping_stats" ->
           {"getDuplicationStats", "getPicardAlignStats",
            "getPicardInsertStats", "getAlignmentStats", "getContextStats",
            "aggregateQcTables", "cleanQcTable", "loadQcMeasures"}
      [] t = "full" -> {"get_mapping_stats", "quantify_expression"}
      [] t = "build_report" -> {"mkdir_report"}
      [] t = "update_report" -> {"mkdir_report_2"}
      [] t = "publish_report" -> {"update_report"}
      [] OTHER -> {}

\* the tasks named by @follows and the tasks named as input
ScrnaseqqcFollows(t) ==
    CASE t = "makeRepTranscripts" -> {"mkdir_transcripts"}
      [] t = "makeSplicedCatalog" -> {"makeRepTranscripts"}
      [] t = "addSpikeIn" -> {"makeSplicedCatalog"}
      [] t = "addSpikeInTranscripts" -> {"addSpikeIn", "mkdir_ercc"}
      [] t = "makeSailfishIndex" ->
           {"mkdir_sailfish_index", "addSpikeInTranscripts", "addSpikeIn"}
      [] t = "quantifyWithSailfish" ->
           {"mkdir_tpm", "makeSailfishIndex", "addSpikeInTranscripts"}
      [] t = "transformSailfishOutput" -> {"quantifyWithSailfish"}
      [] t = "mergeSailfish" -> {"transformSailfishOutput"}
      [] t = "loadSailfish" -> {"mergeSailfish"}
      [] t = "dedupBamFiles" -> {"mkdir_dedup"}
      [] t = "buildFeatureCounts" ->
           {"mkdir_feature_counts", "dedupBamFiles", "addSpikeInTranscripts"}
      [] t = "aggregateFeatureCounts" -> {"buildFeatureCounts"}
      [] t = "loadFeatureCounts" -> {"aggregateFeatureCounts"}
      [] t = "quantify_expression" -> {"loadFeatureCounts", "loadSailfish"}
      [] t = "getContextStats" -> {"mkdir_stats"}
      [] t = "aggregateQcTables" ->
           {"getDuplicationStats", "getPicardAlignStats",
            "getPicardInsertStats", "getAlignmentStats", "getContextStats",
            "getCoverageStats"}
      [] t = "cleanQcTable" -> {"aggregateQcTables"}
      [] t = "loadQcMeasures" -> {"cleanQcTable"}
      [] t = "get_mapping_stats" ->
           {"getDuplicationStats", "getPicardAlignStats",
            "getPicardInsertStats", "getAlignmentStats", "getContextStats",
            "aggregateQcTables", "cleanQcTable", "loadQcMeasures"}
      [] t = "full" ->
           {"get_mapping_stats", "quantify_expression", "loadMetaData"}
      [] t = "build_report" -> {"mkdir_report"}
      [] t = "update_report" -> {"mkdir_report_2"}
      [] t = "publish_report" -> {"update_report"}
      [] OTHER -> {}

\* @transform(inputs, regex(pre(.+)post), add_inputs(extra), rpre \1 rpost)
Transformed(t, inputs, pre, post, rpre, rpost, extra) ==
    {Job(t, i, <<inputs[i]>> \o extra,
         Sub(RegexMatch(inputs[i], pre, post), rpre, rpost)) :
        i \in {n \in 1..Len(inputs) : RegexStarts(inputs[n], pre, post) /= {}}}

\* @transform(inputs, suffix(suf), new)
Suffixed(t, inputs, suf, new) ==
    {Job(t, i, <<inputs[i]>>, SuffixReplace(inputs[i], suf, new)) :
        i \in {n \in 1..Len(inputs) : EndsWith(inputs[n], suf)}}

\* BAMREGEX, regex(r"([^/]+).bam$"): the first place of the group
dedupBamFiles_start(f) ==
    LET slashes == {p \in Occurrences(f, s_slash) : p <= Len(f) - Len(s_bam)}
    IN IF slashes = {} THEN 1 ELSE Max(slashes) + 1

dedupBamFiles_matches(f) ==
    /\ PatAt(f, Len(f) - Len(s_bam) + 1, s_bam)
    /\ dedupBamFiles_start(f) <= Len(f) - Len(s_bam)

\* ... with r"dedup.dir/\1.dedup.bam"
dedupBamFiles_output(f) ==
    SubSeq(f, 1, dedupBamFiles_start(f) - 1) \o s_dedup_dir \o s_slash
        \o SubSeq(f, dedupBamFiles_start(f), Len(f) - Len(s_bam))
        \o s_dedup_bam

\* "feature_counts.dir/{basename[0][0]}_vs_{basename[1][0]}.tsv.gz"
buildFeatureCounts_output(bam, gtf) ==
    s_feature_counts_dir \o s_slash \o Basename(bam) \o s_vs
        \o Basename(gtf) \o s_tsv_gz

\* regex("feature_counts.dir/(\S+)_vs_(\S+).tsv.gz") with
\* r"feature_counts.dir/\2-feature_counts.tsv.gz"
aggregateFeatureCounts_matches(f) ==
    /\ RegexStarts(f, s_feature_counts_dir \o s_slash, s_vs) /= {}
    /\ RegexStarts(RegexMatch(f, s_feature_counts_dir \o s_slash, s_vs).after,
                   <<>>, s_tsv_gz) /= {}

aggregateFeatureCounts_output(f) ==
    LET m1 == RegexMatch(f, s_feature_counts_dir \o s_slash, s_vs)
        m2 == RegexMatch(m1.after, <<>>, s_tsv_gz)
    IN m1.before \o s_feature_counts_dir \o s_slash \o m2.group
           \o s_feature_counts_tsv_gz \o m2.after

\* @originate("stats.dir/<name>_stats.tsv")
StatsFile(name) == s_stats_dir \o s_slash \o name \o s_ustats_tsv

StatsTasks ==
    {"getContextStats", "getAlignmentStats", "getPicardAlignStats",
     "getPicardInsertStats", "getDuplicationStats", "getCoverageStats"}

StatsName(t) ==
    CASE t = "getContextStats" -> s_context
      [] t = "getAlignmentStats" -> s_alignment
      [] t = "getPicardAlignStats" -> s_picard
      [] t = "getPicardInsertStats" -> s_picard_insert
      [] t = "getDuplicationStats" -> s_duplication
      [] t = "getCoverageStats" -> s_coverage

\* the configured table each extract_stats command names with --table-name
StatsTable(t) ==
    CASE t = "getContextStats" -> PARAMS.mapping_context_stats
      [] t = "getAlignmentStats" -> PARAMS.mapping_alignment_stats
      [] t = "getPicardAlignStats" -> PARAMS.mapping_picard_alignments
      [] t = "getPicardInsertStats" -> PARAMS.mapping_picard_inserts
      [] t = "getDuplicationStats" -> PARAMS.mapping_picard_dups
      [] t = "getCoverageStats" -> PARAMS.mapping_picard_dups

ScrnaseqqcMkdir(t) ==
    CASE t = "mkdir_transcripts" -> s_transcripts_dir
      [] t = "mkdir_ercc" -> s_ercc_dir
      [] t = "mkdir_sailfish_index" -> s_sailfish_index_dir
      [] t = "mkdir_tpm" -> s_tpm_dir
      [] t = "mkdir_dedup" -> s_dedup_dir
      [] t = "mkdir_feature_counts" -> s_feature_counts_dir
      [] t = "mkdir_stats" -> s_stats_dir
      [] t = "mkdir_report" -> s_report
      [] t = "mkdir_report_2" -> s_report

RECURSIVE ScrnaseqqcJobs(_)
ScrnaseqqcJobs(t) ==
    CASE t \in {"mkdir_transcripts", "mkdir_ercc", "mkdir_sailfish_index",
                "mkdir_tpm", "mkdir_dedup", "mkdir_feature_counts",
                "mkdir_stats", "mkdir_report", "mkdir_report_2"} ->
           {Job(t, 1, <<>>, ScrnaseqqcMkdir(t))}
      [] t = "makeRepTranscripts" ->
           Transformed(t, <<PARAMS.annotations_geneset_gtf>>,
                       s_reference_dir, s_gtf_gz,
                       s_transcripts_dir \o s_slash, s_fa, <<>>)
      [] t = "makeSplicedCatalog" ->
           Transformed(t, Outputs(ScrnaseqqcJobs("makeRepTranscripts")),
                       s_transcripts_dir \o s_slash, s_fa,
                       s_transcripts_dir \o s_slash, s_spliced_fa, <<>>)
      [] t = "addSpikeIn" ->
           Transformed(t, Outputs(ScrnaseqqcJobs("makeSplicedCatalog")),
                       s_transcripts_dir \o s_slash, s_spliced_fa,
                       s_transcripts_dir \o s_slash, s_ercc_fa,
                       <<PARAMS.ercc_fasta>>)
      [] t = "addSpikeInTranscripts" ->
           Transformed(t, names.GENESETS, s_reference_dir, s_gtf_gz,
                       s_ercc_dir \o s_slash, s_ercc_gtf, <<PARAMS.ercc_gtf>>)
      [] t = "makeSailfishIndex" ->
           \* the output pattern holds no \1
           {Job(t, j.k, <<j.out>>,
                LET m == RegexMatch(j.out, s_transcripts_dir \o s_slash,
                                    s_ercc_fa)
                IN m.before \o s_sailfish_index_dir \o s_sa_bin \o m.after) :
               j \in {c \in ScrnaseqqcJobs("addSpikeIn") :
                        RegexStarts(c.out, s_transcripts_dir \o s_slash,
                                    s_ercc_fa) /= {}}}
      [] t = "quantifyWithSailfish" ->
           LET fastq == FASTQ_FILES(files)
               gtf == Outputs(ScrnaseqqcJobs("addSpikeInTranscripts"))
               index == Outputs(ScrnaseqqcJobs("makeSailfishIndex"))
           IN IF PARAMS.paired
              THEN {Job(t, i,
                        <<fastq[i], s_sailfish_index_dir,
                          Sub(RegexMatch(fastq[i], <<>>, s_fastq_1_gz),
                              <<>>, s_fastq_2_gz)>> \o gtf,
                        Sub(RegexMatch(fastq[i], <<>>, s_fastq_1_gz),
                            s_tpm_dir \o s_slash, s_quant_genes_sf)) :
                      i \in {n \in 1..Len(fastq) :
                               RegexStarts(fastq[n], <<>>, s_fastq_1_gz)
                                   /= {}}}
              ELSE Transformed(t, fastq, <<>>, s_fastq_gz,
                               s_tpm_dir \o s_slash, s_tpm, index \o gtf)
      [] t = "transformSailfishOutput" ->
           Transformed(t, Outputs(ScrnaseqqcJobs("quantifyWithSailfish")),
                       s_tpm_dir \o s_slash, s_quant_genes_sf,
                       s_tpm_dir \o s_slash, s_quant, <<>>)
      [] t = "mergeSailfish" ->
           {Job(t, 1, Outputs(ScrnaseqqcJobs("transformSailfishOutput")),
                s_sailfish_counts_tsv)}
      [] t = "loadSailfish" ->
           Suffixed(t, Outputs(ScrnaseqqcJobs("mergeSailfish")), s_tsv, s_load)
      [] t = "dedupBamFiles" ->
           {Job(t, i, <<names.BAMFILES[i]>>,
                dedupBamFiles_output(names.BAMFILES[i])) :
               i \in {n \in 1..Len(names.BAMFILES) :
                        dedupBamFiles_matches(names.BAMFILES[n])}}
      [] t = "buildFeatureCounts" ->
           LET bams == Outputs(ScrnaseqqcJobs("dedupBamFiles"))
               gtfs == Outputs(ScrnaseqqcJobs("addSpikeInTranscripts"))
           IN {Job(t, (i - 1) * Len(gtfs) + g, <<bams[i], gtfs[g]>>,
                   buildFeatureCounts_output(bams[i], gtfs[g])) :
                  i \in {n \in 1..Len(bams) :
                           PatAt(bams[n], Len(bams[n]) - Len(s_bam) + 1,
                                 s_bam)},
                  g \in {n \in 1..Len(gtfs) : EndsWith(gtfs[n], s_ercc_gtf)}}
      [] t = "aggregateFeatureCounts" ->
           LET counts == Outputs(ScrnaseqqcJobs("buildFeatureCounts"))
               match == {n \in 1..Len(counts) :
                           aggregateFeatureCounts_matches(counts[n])}
               Same(n) == {i \in match :
                             aggregateFeatureCounts_output(counts[i])
                                 = aggregateFeatureCounts_output(counts[n])}
               InGroup(n) == LET In(f) == \E i \in Same(n) : counts[i] = f
                             IN SelectSeq(counts, In)
           IN {Job(t, Min(Same(n)), InGroup(n),
                   aggregateFeatureCounts_output(counts[n])) : n \in match}
      [] t = "loadFeatureCounts" ->
           Suffixed(t, Outputs(ScrnaseqqcJobs("aggregateFeatureCounts")),
                    s_tsv_gz, s_load)
      [] t = "getPicardInsertStats" ->
           \* lines 592-613: a task only if the reads are paired
           IF PARAMS.paired
           THEN {Job(t, 1, <<>>, StatsFile(StatsName(t)))}
           ELSE PlainJob(t)
      [] t \in StatsTasks \ {"getPicardInsertStats"} ->
           {Job(t, 1, <<>>, StatsFile(StatsName(t)))}
      [] t = "aggregateQcTables" ->
           LET stats == Declared(
                   Outputs(ScrnaseqqcJobs("getDuplicationStats"))
                       \o Outputs(ScrnaseqqcJobs("getPicardAlignStats"))
                       \o Outputs(ScrnaseqqcJobs("getPicardInsertStats"))
                       \o Outputs(ScrnaseqqcJobs("getAlignmentStats"))
                       \o Outputs(ScrnaseqqcJobs("getContextStats"))
                       \o Outputs(ScrnaseqqcJobs("getCoverageStats")))
               Matches(f) ==
                   RegexStarts(f, s_stats_dir \o s_slash, s_ustats_tsv) /= {}
           IN IF SelectSeq(stats, Matches) = <<>> THEN {}
              ELSE {Job(t, 1, SelectSeq(stats, Matches),
                        s_stats_dir \o s_slash \o s_QC_measures_stats)}
      [] t = "cleanQcTable" ->
           Suffixed(t, Outputs(ScrnaseqqcJobs("aggregateQcTables")),
                    s_stats, s_clean)
      [] t = "loadQcMeasures" ->
           Suffixed(t, Outputs(ScrnaseqqcJobs("cleanQcTable")),
                    s_clean, s_load)
      [] t = "loadMetaData" -> Suffixed(t, <<PARAMS.meta>>, s_tsv, s_load)
      [] OTHER -> PlainJob(t)

LoadTasks ==
    {"loadSailfish", "loadFeatureCounts", "loadQcMeasures", "loadMetaData"}

\* the tasks whose command writes its result with > %(outfile)s
Redirecting ==
    StatsTasks \cup {"makeRepTranscripts", "makeSplicedCatalog", "addSpikeIn",
                     "addSpikeInTranscripts", "transformSailfishOutput",
                     "mergeSailfish", "aggregateFeatureCounts",
                     "aggregateQcTables", "cleanQcTable"}

\* the shell cannot create a file in a directory that does not exist: the
\* command exits with a non-zero code
ScrnaseqqcRaises(j) ==
    /\ j.task \in Redirecting
    /\ j.out /= NoFile
    /\ Dirname(j.out) /= <<>>
    /\ Dirname(j.out) \notin DOMAIN files

\* the files the command of a job writes, with their content
\* python: params.get(name, default)
Get(params, name, default) ==
    IF name \in DOMAIN params THEN params[name] ELSE default

\* a variant in which loadMetaData lacks the decorator
ScrnaseqqcLimited_three ==
    {"loadSailfish", "loadFeatureCounts", "loadQcMeasures"}

\* lines 390, 517, 715, 745: the tasks decorated with
\* @jobs_limit(PARAMS.get("jobs_limit_db", 1), "db")
ScrnaseqqcLimited ==
    {"loadSailfish", "loadFeatureCounts", "loadQcMeasures", "loadMetaData"}

ScrnaseqqcJobsLimit(params) == Get(params, "jobs_limit_db", 1)

\* lines 465-468: the local variable paired of buildFeatureCounts
buildFeatureCounts_paired(params) ==
    IF params.featurecounts_paired = "1" THEN "-p -B" ELSE ""

\* lines 473-482: the names the statement of buildFeatureCounts
\* interpolates as options of featureCounts, before the file arguments
buildFeatureCounts_statement ==
    <<"featurecounts_options", "featurecounts_threads",
      "featurecounts_strand">>

\* P.run: a name is taken from the local variables of the task function,
\* then from PARAMS
buildFeatureCounts_interpolate(name, params) ==
    IF name = "paired" THEN buildFeatureCounts_paired(params)
    ELSE params[name]

\* the options of the featureCounts command that is run
buildFeatureCounts_options(params) ==
    [i \in 1..Len(buildFeatureCounts_statement) |->
        buildFeatureCounts_interpolate(buildFeatureCounts_statement[i],
                                       params)]

\* line 779: run_report(clean=True), line 793: run_report(clean=False)
ScrnaseqqcClean(t) ==
    CASE t = "build_report" -> TRUE
      [] t = "update_report" -> FALSE

ScrnaseqqcWrites(j, fs) ==
    CASE j.task \in {"build_report", "update_report"} ->
           run_report(ScrnaseqqcClean(j.task), fs)
      [] j.out = NoFile -> Nothing
      [] j.task \in LoadTasks -> P_load_files(j.ins[1], j.out, fs)
      [] j.task \in StatsTasks -> j.out :> <<"table", StatsTable(j.task)>>
      [] j.task = "quantifyWithSailfish" ->
           IF PARAMS.paired
           THEN (j.out :> 0) @@ (Dirname(j.out) :> 0)
                    @@ ((Dirname(j.out) \o s_log) :> 0)
           \* lines 332-347: out_dir is the output name without its
           \* extension and the counts are out_dir/quant.sf
           ELSE ((SubSeq(j.out, 1, Max(Occurrences(j.out, s_dot)) - 1)
                     \o s_quant_sf) :> 0)
                    @@ ((j.out \o s_log) :> 0)
      [] OTHER -> j.out :> 0

ScrnaseqqcLoads(j, fs) ==
    CASE j.task \in LoadTasks -> P_load_tables(j.ins[1], j.out, fs)
      [] OTHER -> Nothing

ScrnaseqqcTargets ==
    {"loadSailfish", "loadFeatureCounts", "get_mapping_stats"}
        \cup ReportTargets

\* the reads a working directory holds: pairs of files, or single files
ScrnaseqqcReads(layout) ==
    IF layout = "paired"
    THEN Range(FastqNames(s_fastq_1_gz)) \cup Range(FastqNames(s_fastq_2_gz))
    ELSE Range(FastqNames(s_fastq_gz))

\* pipeline.yml of pipeline_scrnaseqqc
ScrnaseqqcParams(p, fp) ==
    [paired |-> p,
     featurecounts_paired |-> fp,
     featurecounts_options |-> "",
     featurecounts_threads |-> "4",
     featurecounts_strand |-> "0",
     annotations_geneset_gtf |-> s_geneset_gtf,
     ercc_fasta |-> s_ercc92_fa,
     ercc_gtf |-> s_ercc92_gtf,
     fastq_dir |-> <<"?", "!">>,
     bam_dir |-> s_dot,
     meta |-> s_meta_tsv,
     mapping_context_stats |-> "context_stats",
     mapping_alignment_stats |-> "bam_stats",
     mapping_picard_alignments |-> "picard_stats_alignment",
     mapping_picard_inserts |-> "picard_stats_insert_size",
     mapping_picard_dups |-> "picard_duplication_metrics"]

\* the files every working directory of the pipeline holds
ScrnaseqqcInputs == {s_geneset_gtf, s_ercc92_fa, s_ercc92_gtf, s_meta_tsv}

ScrnaseqqcInit ==
    /\ pipeline = "scrnaseqqc"
    /\ target \in ScrnaseqqcTargets
    /\ \E p \in BOOLEAN,
          fp \in (IF target = "loadFeatureCounts" THEN {"0", "1"}
                  ELSE {"0"}) :
          PARAMS = ScrnaseqqcParams(p, fp)
    /\ \E layout \in {"paired", "single"},
          old \in (IF target \in ReportTargets THEN BOOLEAN ELSE {FALSE}),
          lost \in (IF target = "loadSailfish" THEN {{}, {s_ercc92_fa}}
                    ELSE {{}}) :
          files = [f \in (ScrnaseqqcInputs \ lost) \cup Range(BamNames)
                           \cup ScrnaseqqcReads(layout)
                      |-> 0]
                      @@ (IF old THEN OldReport ELSE Nothing)
    /\ tables = Nothing

\* the target full, with jobs_limit_db configured or left out of
\* pipeline.yml, and with or without the file of the metadata
ScrnaseqqcFullInit ==
    /\ pipeline = "scrnaseqqc"
    /\ target = "full"
    /\ \E p \in BOOLEAN, limit \in {Nothing, "jobs_limit_db" :> 2},
          lost \in {{}, {s_meta_tsv}} :
          /\ lost /= {} => p /\ limit = Nothing
          /\ PARAMS = ScrnaseqqcParams(p, "0") @@ limit
          /\ files = [f \in (ScrnaseqqcInputs \ lost) \cup Range(BamNames)
                             \cup ScrnaseqqcReads(IF p THEN "paired"
                                                  ELSE "single")
                        |-> 0]
    /\ tables = Nothing

(***************************************************************************)
(* The pipelines, by name.                                                 *)
(***************************************************************************)
Follows(t) ==
    CASE pipeline = "template" -> TemplateFollows(t)
      [] pipeline = "geneinfo" -> GeneinfoFollows(t)
      [] pipeline = "homer" -> HomerFollows(t)
      [] pipeline = "scrnaseqqc" -> ScrnaseqqcFollows(t)

Jobs(t) ==
    CASE pipeline = "template" -> TemplateJobs(t)
      [] pipeline = "geneinfo" -> GeneinfoJobs(t)
      [] pipeline = "homer" -> HomerJobs(t)
      [] pipeline = "scrnaseqqc" -> ScrnaseqqcJobs(t)

Active(t) ==
    CASE pipeline = "template" -> TRUE
      [] pipeline = "geneinfo" -> GeneinfoActive(t)
      [] pipeline = "homer" -> HomerActive(t)
      [] pipeline = "scrnaseqqc" -> TRUE

Writes(j, fs) ==
    CASE pipeline = "template" -> TemplateWrites(j, fs)
      [] pipeline = "geneinfo" -> GeneinfoWrites(j, fs)
      [] pipeline = "homer" -> HomerWrites(j, fs)
      [] pipeline = "scrnaseqqc" -> ScrnaseqqcWrites(j, fs)

Loads(j, fs) ==
    CASE pipeline = "template" -> TemplateLoads(j, fs)
      [] pipeline = "geneinfo" -> GeneinfoLoads(j, fs)
      [] pipeline = "homer" -> HomerLoads(j, fs)
      [] pipeline = "scrnaseqqc" -> ScrnaseqqcLoads(j, fs)

\* the tasks that share the limit named "db", and the limit
Limited(t) == pipeline = "scrnaseqqc" /\ t \in ScrnaseqqcLimited

JobsLimit == ScrnaseqqcJobsLimit(PARAMS)

\* whether the body of the task function of a job raises an exception
Raises(j) ==
    CASE pipeline = "homer" -> HomerRaises(j)
      [] pipeline = "scrnaseqqc" -> ScrnaseqqcRaises(j)
      [] OTHER -> FALSE

\* what the import of the module leaves: the namespace, the warnings, the
\* tasks declared and the exception that ended it
ModuleBody ==
    CASE pipeline = "template" ->
           [names |-> Nothing, warned |-> {}, declared |-> TemplateTasks,
            error |-> "none"]
      [] pipeline = "geneinfo" -> GeneinfoModule(PARAMS)
      [] pipeline = "homer" -> HomerModule(files)
      [] pipeline = "scrnaseqqc" -> ScrnaseqqcModule(PARAMS, files)

(***************************************************************************)
(* The scheduler.                                                          *)
(***************************************************************************)
\* the tasks reached from the set S along the declared dependencies in at
\* most n steps
RECURSIVE Reach(_, _)
Reach(S, n) ==
    LET more == S \cup UNION {Follows(t) \cap declared : t \in S}
    IN IF n = 0 \/ more = S THEN S ELSE Reach(more, n - 1)

\* the tasks t depends on, directly or transitively
Upstream(t) ==
    Reach(Follows(t) \cap declared, Cardinality(declared))

\* the jobs of the run: those of the active tasks among the needed ones
AllJobs == UNION {jobs[t] : t \in {u \in needed : Active(u)}}

\* a task is complete when its jobs are; a task without jobs, or one
\* @active_if switches off, is retired when the scheduler comes to it, which
\* it does once the tasks it follows are complete
RECURSIVE TaskComplete(_)
TaskComplete(t) ==
    IF ~Active(t) \/ jobs[t] = {}
    THEN \A p \in Follows(t) \cap declared : TaskComplete(p)
    ELSE jobs[t] \subseteq completed

\* a job is up to date when the file declared as its output exists
UpToDate(j) == j.out /= NoFile /\ j.out \in DOMAIN files

InputsExist(j) == \A i \in 1..Len(j.ins) : j.ins[i] \in DOMAIN files

CanStart(j) ==
    /\ phase = "running"
    /\ failed = {} /\ missing = {}
    /\ j \notin running \cup completed
    /\ \A p \in Follows(j.task) \cap declared : TaskComplete(p)

\* the place of a task in the order in which the scheduler walks the tasks:
\* that of its declaration
Index(seq, x) == CHOOSE i \in 1..Len(seq) : seq[i] = x

Rank(t) ==
    CASE pipeline = "template" -> Index(TemplateOrder, t)
      [] pipeline = "geneinfo" -> Index(GeneinfoOrder, t)
      [] pipeline = "homer" ->
           CHOOSE i \in 1..Len(HomerDeclarations) :
               t \in HomerDeclarations[i].tasks
      [] pipeline = "scrnaseqqc" -> Index(ScrnaseqqcOrder, t)

\* the scheduler hands out the jobs task by task: of the jobs that can
\* start, those of the first task are next
Ready == {j \in AllJobs : CanStart(j)}

NextJobs ==
    LET ready == Ready
        first == Min({Rank(j.task) : j \in ready})
    IN {j \in ready : Rank(j.task) = first}

\* import of the script: the module body runs to its end or to an exception
LoadModule ==
    /\ phase = "import"
    /\ names' = ModuleBody.names
    /\ warned' = ModuleBody.warned
    /\ declared' = ModuleBody.declared
    /\ loadError' = ModuleBody.error
    /\ phase' = IF ModuleBody.error = "none" THEN "ready" ELSE "aborted"
    /\ UNCHANGED <<pipeline, PARAMS, target, needed, jobs, files, tables, run,
                   forced, running, completed, executed, failed, missing>>

\* P.main: the scheduler is started for the target
StartRun ==
    /\ phase \in {"ready", "ok"}
    /\ run < MaxRuns
    /\ run' = run + 1
    /\ forced' \in (IF run = 0 THEN {FALSE} ELSE BOOLEAN)
    /\ phase' = "running"
    /\ running' = {}
    /\ completed' = {}
    /\ executed' = {}
    /\ failed' = {}
    /\ missing' = {}
    /\ needed' = ({target} \cup Upstream(target)) \cap declared
    /\ jobs' = [t \in ({target} \cup Upstream(target)) \cap declared |->
                   IF Active(t) THEN Jobs(t) ELSE {}]
    /\ UNCHANGED <<pipeline, PARAMS, target, names, warned, declared,
                   loadError, files, tables>>

\* a job whose output is up to date is not executed
SkipJob(j) ==
    /\ CanStart(j)
    /\ InputsExist(j)
    /\ UpToDate(j) /\ ~forced
    /\ completed' = completed \cup {j}
    /\ UNCHANGED <<pipeline, PARAMS, target, needed, jobs, phase, names,
                   warned, declared,
                   loadError, files, tables, run, forced, running, executed,
                   failed, missing>>

\* a job one of whose input files does not exist cannot be run: the run is
\* given up
MissingInput(j) ==
    /\ CanStart(j)
    /\ ~InputsExist(j)
    /\ missing' = missing \cup {j}
    /\ UNCHANGED <<pipeline, PARAMS, target, needed, jobs, phase, names,
                   warned, declared,
                   loadError, files, tables, run, forced, running, completed,
                   executed, failed>>

\* @jobs_limit: the jobs of the tasks that share a limit hold a semaphore
\* of that size while they run
WithinLimit(j) ==
    Limited(j.task) =>
        Cardinality({r \in running : Limited(r.task)}) < JobsLimit

StartJob(j) ==
    /\ CanStart(j)
    /\ InputsExist(j)
    /\ ~UpToDate(j) \/ forced
    /\ Cardinality(running) < MaxProcs
    /\ WithinLimit(j)
    /\ running' = running \cup {j}
    /\ UNCHANGED <<pipeline, PARAMS, target, needed, jobs, phase, names,
                   warned, declared,
                   loadError, files, tables, run, forced, completed,
                   executed, failed, missing>>

\* the body of the task function runs and its command exits with 0
JobSucceeds(j) ==
    /\ j \in running
    /\ ~Raises(j)
    /\ files' = Writes(j, files) @@ files
    /\ tables' = Loads(j, files) @@ tables
    /\ running' = running \ {j}
    /\ completed' = completed \cup {j}
    /\ executed' = executed \cup {j}
    /\ UNCHANGED <<pipeline, PARAMS, target, needed, jobs, phase, names,
                   warned, declared,
                   loadError, run, forced, failed, missing>>

\* the command exits with a non-zero code, or the body of the task function
\* raises an exception: the job is aborted
JobFails(j) ==
    /\ j \in running
    /\ running' = running \ {j}
    /\ failed' = failed \cup {j}
    /\ UNCHANGED <<pipeline, PARAMS, target, needed, jobs, phase, names,
                   warned, declared,
                   loadError, files, tables, run, forced, completed,
                   executed, missing>>

\* the run ends: with an error once a job has failed and the running jobs
\* have ended, with success once every needed task is complete
EndRun ==
    /\ phase = "running"
    /\ running = {}
    /\ \/ failed \cup missing /= {} /\ phase' = "error"
       \/ /\ failed \cup missing = {}
          /\ AllJobs \subseteq completed
          /\ phase' = "ok"
    /\ UNCHANGED <<pipeline, PARAMS, target, needed, jobs, names, warned,
                   declared, loadError, files, tables, run, forced, running,
                   completed, executed, failed, missing>>

Next ==
    \/ LoadModule
    \/ StartRun
    \/ \E j \in NextJobs : SkipJob(j)
    \/ \E j \in NextJobs : MissingInput(j)
    \/ \E j \in NextJobs : StartJob(j)
    \/ \E j \in running : JobSucceeds(j)
    \/ \E j \in running : JobFails(j)
    \/ EndRun

InitCommon ==
    /\ phase = "import"
    /\ needed = {}
    /\ jobs = Nothing
    /\ names = Nothing
    /\ warned = {}
    /\ declared = {}
    /\ loadError = "none"
    /\ run = 0
    /\ forced = FALSE
    /\ running = {}
    /\ completed = {}
    /\ executed = {}
    /\ failed = {}
    /\ missing = {}

TemplateStart == TemplateInit /\ InitCommon

SpecTemplate == TemplateStart /\ [][Next]_vars

HomerStart == HomerInit /\ InitCommon

SpecHomer == HomerStart /\ [][Next]_vars

ScrnaseqqcStart == ScrnaseqqcInit /\ InitCommon

SpecScrnaseqqc == ScrnaseqqcStart /\ [][Next]_vars

ScrnaseqqcFullStart == ScrnaseqqcFullInit /\ InitCommon

SpecScrnaseqqcFull == ScrnaseqqcFullStart /\ [][Next]_vars

GeneinfoStart == GeneinfoInit /\ InitCommon

SpecGeneinfo == GeneinfoStart /\ [][Next]_vars

\* the four pipelines
PipelinesStart ==
    \E p \in {"template", "geneinfo", "homer", "scrnaseqqc"} :
        /\ CASE p = "template" -> TemplateInit
             [] p = "geneinfo" -> GeneinfoInit
             [] p = "homer" -> HomerInit
             [] p = "scrnaseqqc" -> ScrnaseqqcInit
        /\ InitCommon

SpecPipelines == PipelinesStart /\ [][Next]_vars

(***************************************************************************)
(* Properties.                                                             *)
(***************************************************************************)
\* the jobs the scheduler has started, or has taken as up to date
Started == running \cup completed \cup failed

HomerDesignMissing ==
    /\ pipeline = "homer"
    /\ s_design_tsv \notin DOMAIN files
    /\ phase /= "import"

\* the tasks with one job for each bam file of the design
PerBamTasks ==
    {"makeTagDirectoryInput", "makeTagDirectoryChips", "findPeaks",
     "bedConversion", "annotatePeaks", "findMotifs"}

C2_MissingDesignDeclaresGraph ==
    HomerDesignMissing =>
        /\ loadError = "none"
        /\ {"INPUTBAMS", "CHIPBAMS", "TOTALBAMS"} \subseteq DOMAIN names
        /\ "full" \in declared

\* no task is upstream of itself
Acyclic == \A t \in declared : t \notin Upstream(t)

\* a job of the task has its declared output among its inputs
SelfOutput(t) ==
    \E j \in Jobs(t) : j.out /= NoFile /\ j.out \in Range(j.ins)

\* the import of the script has ended
Imported == phase \in {"ready", "aborted"}

\* C3: in each pipeline the declared dependency relation is acyclic, and no
\* task other than annotate of pipeline_geneinfo, whose declared output
\* allgenes.tsv is its input, declares an output that is one of its inputs
C3_AcyclicButAnnotate ==
    Imported =>
        /\ Acyclic
        /\ \A t \in declared :
              SelfOutput(t) => pipeline = "geneinfo" /\ t = "annotate"

C3_Witness ==
    /\ pipeline = "geneinfo"
    /\ Imported
    /\ Acyclic
    /\ SelfOutput("annotate")
    /\ Upstream("full") /= {}

\* C3 as stated: the relation is acyclic and no task at all declares an
\* output that is one of its inputs
C3_NoTaskOutputsItsInput ==
    Imported => Acyclic /\ \A t \in declared : ~SelfOutput(t)

\* C4: in pipeline_homer, once the command of a job has succeeded, the file
\* declared as the output of the job exists
C4_DeclaredOutputWritten ==
    pipeline = "homer" =>
        \A j \in executed : j.out /= NoFile => j.out \in DOMAIN files

\* C5: a job whose command exits with a non-zero code is not completed, and
\* no job of a task that depends on its task is started in that run; in
\* pipeline_template, once a countWords job has failed no job of
\* loadWordCounts or full runs
C5_FailedJobStopsDependents ==
    /\ \A j \in failed :
          /\ j \notin completed \cup executed
          /\ \A t \in needed :
                j.task \in Upstream(t) => jobs[t] \cap Started = {}
    /\ (pipeline = "template" /\ \E j \in failed : j.task = "countWords") =>
          \A k \in Started : k.task \notin {"loadWordCounts", "full"}

C5_Witness ==
    /\ pipeline = "template"
    /\ phase = "error"
    /\ \E j \in failed : j.task = "countWords"
    /\ \E j \in executed : j.task = "countWords"

\* C6: once a loader job has succeeded, the table holds what the input
\* file of the job holds, whatever the table held before and however often
\* the loader has run
C6_LoadRecreatesTable ==
    pipeline = "template" =>
        \A j \in executed :
            j.task = "loadWordCounts" =>
                /\ to_table(j.out) \in DOMAIN tables
                /\ tables[to_table(j.out)] = files[j.ins[1]]

C6_Witness ==
    /\ pipeline = "template"
    /\ run = 2
    /\ forced
    /\ \E j \in executed :
          /\ j.task = "loadWordCounts"
          /\ tables[to_table(j.out)] = Counts(MaxContent)

GeneinfoImported == pipeline = "geneinfo" /\ phase /= "import"

\* the annotations listed in my_gene_info_annotations
ListedAnnotations == Fields(PARAMS.my_gene_info_annotations)

\* C7: in pipeline_geneinfo GetAndTranslateAllGenes is active for every
\* configuration, AnnotateWithGO, AnnotateWithPathway and
\* AnnotateWithHomologene are active if and only if go, pathway and
\* homologene are listed in my_gene_info_annotations, and no job of an
\* inactive task runs
C7_ActiveIffListed ==
    GeneinfoImported =>
        /\ GeneinfoActive("GetAndTranslateAllGenes")
        /\ GeneinfoActive("AnnotateWithGO") <=> s_go \in ListedAnnotations
        /\ GeneinfoActive("AnnotateWithPathway")
               <=> s_pathway \in ListedAnnotations
        /\ GeneinfoActive("AnnotateWithHomologene")
               <=> s_homologene \in ListedAnnotations
        /\ \A j \in Started : GeneinfoActive(j.task)

C7_Witness ==
    /\ GeneinfoImported
    /\ GeneinfoActive("AnnotateWithGO")
    /\ ~GeneinfoActive("AnnotateWithPathway")
    /\ \E j \in executed : j.task = "AnnotateWithGO"
    /\ \E j \in executed : j.task = "GetAndTranslateAllGenes"

AnnotateWithTasks ==
    {"AnnotateWithGO", "AnnotateWithPathway", "AnnotateWithHomologene",
     "AnnotateWithMGI", "AnnotateWithMousePathway", "AnnotateWithHPO"}

\* C8: in pipeline_geneinfo no MakeSubDBs job starts before annotate has
\* completed, annotate does not complete before every active AnnotateWith
\* task has completed, and no MakeSubDBs job runs unless db_subset is 1
C8_FullOrder ==
    GeneinfoImported =>
        /\ GeneinfoJobs("MakeSubDBs") \cap Started /= {} =>
              GeneinfoJobs("annotate") \subseteq completed
        /\ GeneinfoJobs("annotate") \cap Started /= {} =>
              \A t \in AnnotateWithTasks :
                  GeneinfoActive(t) => GeneinfoJobs(t) \subseteq completed
        /\ PARAMS.db_subset /= 1 =>
              GeneinfoJobs("MakeSubDBs") \cap Started = {}

C8_Witness ==
    /\ GeneinfoImported
    /\ phase = "ok"
    /\ \A t \in AnnotateWithTasks : GeneinfoActive(t)
    /\ GeneinfoJobs("MakeSubDBs") \subseteq executed
    /\ Cardinality(GeneinfoJobs("MakeSubDBs")) = MaxGeneLists

\* C9: once GetAndTranslateAllGenes has run, allgenes.tsv holds the Entrez
\* ids that were downloaded, at most 100 of them when test is 1
C9_AllgenesHoldsEntrezIds ==
    GeneinfoImported =>
        \A j \in executed :
            j.task = "GetAndTranslateAllGenes" =>
                /\ files[j.out] = entrezgenelist
                /\ PARAMS.test = 1 => Len(files[j.out]) <= TestCount

HomologeneUsers ==
    {"AnnotateWithMousePathway", "AnnotateWithMGI", "AnnotateWithHPO"}

\* C10: no job of AnnotateWithMousePathway, AnnotateWithMGI or
\* AnnotateWithHPO starts before AnnotateWithHomologene has completed, and
\* the input file of such a job is the declared output of a task upstream
C10_HomologeneFeedsUsers ==
    GeneinfoImported =>
        \A t \in HomologeneUsers :
            /\ GeneinfoActive(t) =>
                  \A j \in GeneinfoJobs(t) :
                      \E u \in Upstream(t) :
                          \E k \in GeneinfoJobs(u) : k.out = j.ins[1]
            /\ \A j \in GeneinfoJobs(t) \cap Started :
                  /\ GeneinfoActive("AnnotateWithHomologene")
                  /\ GeneinfoJobs("AnnotateWithHomologene") \subseteq completed

ReportBuilders == {"build_report", "update_report"}

\* a step of a report task in one of the two pipelines
ReportStep ==
    pipeline \in {"template", "scrnaseqqc"} =>
        /\ \A j \in running' \ running :
              /\ j.task \in ReportBuilders =>
                    /\ s_report \in DOMAIN files
                    /\ \A p \in Follows(j.task) : jobs[p] \subseteq completed
              /\ j.task = "publish_report" =>
                    /\ jobs["update_report"] /= {}
                    /\ jobs["update_report"] \subseteq completed
        /\ \A j \in executed' \ executed :
              /\ j.task = "build_report" => ReportPages(files') = {run}
              /\ j.task = "update_report" =>
                    ReportPages(files') = ReportPages(files) \cup {run}

\* C11: in pipeline_template and pipeline_scrnaseqqc, build_report and
\* update_report start only once the report directory exists and its mkdir
\* task is complete, publish_report starts only once update_report is
\* complete, build_report leaves a report that holds the pages of this build
\* alone, and update_report keeps every page the report held
C11_ReportTasks == [][ReportStep]_vars

C11_Witness ==
    /\ pipeline = "scrnaseqqc"
    /\ PlainJob("publish_report") \subseteq completed
    /\ ReportPages(files) = {0, 1, 2}

s_pipeline_counts ==
    <<"p", "i", "p", "e", "l", "i", "n", "e", ".", "c", "o", "u", "n", "t",
      "s">>
s_conf_counts == <<"c", "o", "n", "f", ".", "c", "o", "u", "n", "t", "s">>
s_pipeline_counts_load ==
    <<"p", "i", "p", "e", "l", "i", "n", "e", "_", "c", "o", "u", "n", "t",
      "s", ".", "l", "o", "a", "d">>
s_conf_counts_load ==
    <<"c", "o", "n", "f", "_", "c", "o", "u", "n", "t", "s", ".", "l", "o",
      "a", "d">>

\* the input and the output of each job of a set
InOut(js) == {<<j.ins, j.out>> : j \in js}

\* C12: in pipeline_template countWords has one job for each of the two
\* configuration files, pipeline.yml -> pipeline.counts and conf.py ->
\* conf.counts, with distinct outputs; loadWordCounts has one job for each
\* counts file, -> pipeline_counts.load and conf_counts.load, which starts
\* only after the countWords job that writes its input has completed; and
\* full completes only after both loads have completed
C12_WordCountsOfBothFiles ==
    (pipeline = "template" /\ Imported) =>
        /\ InOut(TemplateJobs("countWords")) =
              {<<<<pipeline_yml>>, s_pipeline_counts>>,
               <<<<conf_py>>, s_conf_counts>>}
        /\ Cardinality(TemplateJobs("countWords")) = 2
        /\ InOut(TemplateJobs("loadWordCounts")) =
              {<<<<s_pipeline_counts>>, s_pipeline_counts_load>>,
               <<<<s_conf_counts>>, s_conf_counts_load>>}
        /\ Cardinality(TemplateJobs("loadWordCounts")) = 2
        /\ \A j \in Started :
              j.task = "loadWordCounts" =>
                  \E c \in completed :
                      c.task = "countWords" /\ c.out = j.ins[1]
        /\ PlainJob("full") \cap completed /= {} =>
              TemplateJobs("loadWordCounts") \subseteq completed

C12_Witness ==
    /\ pipeline = "template"
    /\ PlainJob("full") \subseteq completed
    /\ TemplateJobs("loadWordCounts") \subseteq executed
    /\ {s_pipeline_counts_load, s_conf_counts_load} \subseteq DOMAIN files

\* C13: in pipeline_scrnaseqqc each stats-extraction task extracts a table
\* of its own, so no two of the stats files written hold the same table;
\* in particular coverage_stats.tsv does not hold the duplication table
C13_StatsTablesDiffer ==
    pipeline = "scrnaseqqc" =>
        \A j, k \in executed :
            (/\ j.task \in StatsTasks /\ j.out /= NoFile
             /\ k.task \in StatsTasks /\ k.out /= NoFile
             /\ j /= k) =>
                files[j.out] /= files[k.out]

\* C14: in pipeline_scrnaseqqc, for both values of paired, every output of
\* quantifyWithSailfish is the input of a transformSailfishOutput job, and
\* mergeSailfish takes one transformed file for each quantified sample, so
\* that its input list is not empty when samples are quantified
C14_EverySampleMerged ==
    (pipeline = "scrnaseqqc" /\ "mergeSailfish" \in needed) =>
        /\ \A j \in jobs["quantifyWithSailfish"] :
              \E k \in jobs["transformSailfishOutput"] : k.ins[1] = j.out
        /\ Cardinality(jobs["transformSailfishOutput"]) =
              Cardinality(jobs["quantifyWithSailfish"])
        /\ \A m \in jobs["mergeSailfish"] :
              /\ Range(m.ins) = {k.out : k \in jobs["transformSailfishOutput"]}
              /\ jobs["quantifyWithSailfish"] /= {} => m.ins /= <<>>

\* C15: the featureCounts command buildFeatureCounts runs holds the options
\* "-p -B" when featurecounts_paired is "1", and does not hold them when it
\* is any other value
C15_PairedOptionsInCommand ==
    \A j \in executed :
        (pipeline = "scrnaseqqc" /\ j.task = "buildFeatureCounts") =>
            ("-p -B" \in Range(buildFeatureCounts_options(PARAMS))
                <=> PARAMS.featurecounts_paired = "1")

\* the jobs of the four tasks that load into the database which are running
RunningLoaders ==
    {r \in running :
        r.task \in {"loadSailfish", "loadFeatureCounts", "loadQcMeasures",
                    "loadMetaData"}}

\* C16: in pipeline_scrnaseqqc the jobs of loadSailfish, loadFeatureCounts,
\* loadQcMeasures and loadMetaData that run at the same time are never more
\* than jobs_limit_db, which is 1 when pipeline.yml does not set it
C16_LoadersWithinLimit ==
    pipeline = "scrnaseqqc" =>
        Cardinality(RunningLoaders) <=
            (IF "jobs_limit_db" \in DOMAIN PARAMS THEN PARAMS.jobs_limit_db
             ELSE 1)

\* a loader runs, jobs_limit_db is not set, and the job that is next is
\* one of another loader, which has to wait
C16_Witness ==
    /\ pipeline = "scrnaseqqc"
    /\ "jobs_limit_db" \notin DOMAIN PARAMS
    /\ \E r \in RunningLoaders :
          \E j \in NextJobs :
              /\ j.task \in {"loadSailfish", "loadFeatureCounts",
                             "loadQcMeasures", "loadMetaData"}
              /\ j.task /= r.task
              /\ InputsExist(j) /\ ~UpToDate(j)
              /\ Cardinality(running) < MaxProcs

\* the tasks upstream of each of the four loaders
LoaderUpstream ==
    [loadSailfish |->
        {"mergeSailfish", "transformSailfishOutput", "quantifyWithSailfish",
         "makeSailfishIndex", "addSpikeInTranscripts", "addSpikeIn",
         "makeSplicedCatalog", "makeRepTranscripts"},
     loadFeatureCounts |->
        {"aggregateFeatureCounts", "buildFeatureCounts", "dedupBamFiles",
         "addSpikeInTranscripts", "addSpikeIn", "makeSplicedCatalog",
         "makeRepTranscripts"},
     loadQcMeasures |->
        {"cleanQcTable", "aggregateQcTables", "getDuplicationStats",
         "getPicardAlignStats", "getPicardInsertStats", "getAlignmentStats",
         "getContextStats", "getCoverageStats"},
     loadMetaData |-> {}]

TaskDone(t) == t \in needed /\ jobs[t] \subseteq completed

\* C17: in pipeline_scrnaseqqc, when full has completed, loadSailfish,
\* loadFeatureCounts, loadQcMeasures and loadMetaData have completed, and a
\* job of a loader is started only when every task upstream of the loader
\* has completed, getCoverageStats among those upstream of loadQcMeasures
C17_FullAfterLoaders ==
    (pipeline = "scrnaseqqc" /\ target = "full") =>
        /\ (\E j \in completed : j.task = "full") =>
              \A l \in DOMAIN LoaderUpstream : TaskDone(l)
        /\ \A j \in Started :
              j.task \in DOMAIN LoaderUpstream =>
                  \A u \in LoaderUpstream[j.task] : TaskDone(u)

\* full has completed in a run in which each of the four loaders and
\* getCoverageStats have run
C17_Witness ==
    /\ pipeline = "scrnaseqqc" /\ target = "full"
    /\ \E j \in completed : j.task = "full"
    /\ \A l \in DOMAIN LoaderUpstream \cup {"getCoverageStats"} :
          \E j \in executed : j.task = l

\* the files a job declares or writes
Claimed(j) == HomerWritten(j) \cup ({j.out} \ {NoFile})

\* C18: in pipeline_homer, for every design table, no two jobs that run at
\* the same time declare or write the same file, also when a control bam
\* is shared by several samples or a bam is both a sample and a control
C18_ConcurrentJobsWriteApart ==
    pipeline = "homer" =>
        \A j, k \in running : j /= k => Claimed(j) \cap Claimed(k) = {}

=============================================================================
